---- MODULE Spec2Model ----
(***************************************************************************)
(* A model of libdrop's transfer engine: the Service facade, the Transfer  *)
(* Manager, the client (sender) and server (receiver) message loops with   *)
(* their per-file sub-tasks, the event bus, the Storage Dispatcher and the *)
(* Storage journal.  One live transfer, T1, is modelled; T2 is a second    *)
(* transfer id that exists only in the journal.                            *)
(*                                                                         *)
(* Spec        the running transfer: loop, sub-tasks, Service calls, host  *)
(* SpecStorage the Storage API on its own                                  *)
(* SpecNeg     connecting and version negotiation of the sender            *)
(* SpecDl      one V3+ download with resume, byte by byte                  *)
(***************************************************************************)
EXTENDS Naturals, Integers, Sequences, FiniteSets, TLC

VARIABLES
    role,        \* "client" (sender loop) or "server" (receiver loop) of transfer T1
    pc,          \* position of the message loop
    cur,         \* the frame picked by the recv branch of the select
    registered,  \* T1 has an entry (and a request channel) in the TransferManager
    rejections,  \* the RejectionSet of T1's TransferManager entry
    api_q,       \* requests queued in the loop's api_req channel
    jobs,        \* every spawned per-file sub-task, by spawn order
    tasks,       \* HandlerLoop::tasks / jobs: file -> index into jobs, 0 if none
    checksums,   \* HandlerLoop::checksums (v4): the files that have a checksum cell
    events,      \* every event sent on State::event_tx, in emission order
    bus,         \* events sent and not yet received by the host loop
    wire,        \* control messages sent to the peer
    ret,         \* the last Service call and what it returned
    ncalls,      \* Service calls made so far
    nframes,     \* frames received from the peer so far
    nprog,       \* progress reports of download sub-tasks so far
    st_xfers,    \* storage: transfers table
    st_out,      \* storage: outgoing_paths with their state tables
    st_in,       \* storage: incoming_paths with their state tables
    st_ret,      \* what the last direct Storage call returned
    st_now,      \* storage: the database clock that stamps created_at, in ticks
    st_calls,    \* direct Storage calls made so far
    st_inserted, \* history: the TransferInfo each stored transfer was inserted with, and
                 \* the files remove_transfer_file deleted from it
    ever_rejected, \* history: the files whose rejection the TransferManager ever recorded
    max_retry_interval, \* config.connection_max_retry_interval, in ms
    req_timeout, \* config.req_connection_timeout, in ms
    sleep_time,  \* tcp_connect: the next sleep, in ms
    elapsed,     \* tcp_connect: time slept so far, in ms
    nretry,      \* tcp_connect: failed connection attempts so far
    tried,       \* establish_ws_conn: the versions tried with the answer to each
    ver,         \* the negotiated protocol version
    handler,     \* the handler that RunContext::run was given
    src,         \* download: the content of the sender's file
    cell,        \* download: the value of the file's full-checksum cell
    tmp,         \* download: the temporary file "<file_id>.dropdl-part"
    dst,         \* download: the file at the final path
    offset,      \* Downloader::offset
    dl_pc,       \* position of the download sub-task
    run,         \* the connection the download runs on: 1, or 2 after a reconnect
    streamed,    \* bytes of the file the sender streamed on this connection
    interrupted_at, \* history: size of the temporary file when connection 1 broke
    last_csum,   \* history: the digest that validate computed
    report,      \* download: the ReportChsum the sender answered the ReqChsum of init with
    now,         \* idle timeout: the clock, in ticks
    last_recv,   \* HandlerLoop::last_recv
    transfer_idle_lifetime, \* config.transfer_idle_lifetime, in ticks
    inbox,       \* idle timeout: frames that arrived on the socket and were not yet received
    last_arrival, \* history: the time the last frame of the peer arrived
    rd_len,      \* FileReader::meta.len(): the size of the file when it was opened
    rd_size,     \* the size of the file on disk
    rd_touched,  \* the modification time on disk differs from FileReader::meta.modified()
    rd_total,    \* Reader::bytes_read
    rd_yielded,  \* history: the bytes of the chunks read_chunk returned
    rd_last,     \* history: the last call of read_chunk and its result
    rd_mods,     \* modifications of the file so far
    file_progress, \* StorageDispatch::file_progress
    dp_journal,  \* the state rows of each (transfer, file) with their byte counts
    dp_handled,  \* history: the events handle_event was called with
    cs_db,       \* incoming_paths.checksum of each file of the transfer
    cs_cells,    \* HandlerLoop::checksums (v4) with the content of each cell
    cs_wire,     \* the messages enqueued to the peer through msg_tx
    cs_pc,       \* the connection: "idle", "upgrade", "loop", "over", "panicked", "failed"
    cs_to_fetch, \* the files the request task of upgrade has still to ask for
    cs_saves,    \* the save_checksum tasks spawned and not yet run
    cs_conn,     \* connections of the transfer so far
    cs_nrep,     \* ReportChsum messages received so far
    cs_loaded,   \* history: what fetch_checksums returned at the last upgrade
    cs_reported, \* history: the files a full-size report was handled for in this loop
    cs_last,     \* history: the last ReportChsum or Download handled and the cell it met
    vd_pc,       \* the download sub-task: "none", "init", "stream", "validate", "success",
                 \* "failed", "aborted"
    vd_cell,     \* the cell of the file in HandlerLoop::checksums (Downloader::full_csum)
    vd_req,      \* the ReqChsum of upgrade for the file: "queued", "sent", "dropped"
    vd_loop,     \* the server loop: "none", "alive", "timed_out"
    vd_idle,     \* last_recv.elapsed(), in ticks
    vd_lifetime, \* config.transfer_idle_lifetime, in ticks
    vd_digest    \* the checksum of the bytes in the temporary file

engineVars == <<role, pc, cur, registered, rejections, api_q, jobs, tasks, checksums,
                events, bus, wire, ret, ncalls, nframes, nprog, ever_rejected>>
storageVars == <<st_xfers, st_out, st_in, st_ret, st_now, st_calls, st_inserted>>
negVars == <<max_retry_interval, req_timeout, sleep_time, elapsed, nretry, tried, ver, handler>>
dlVars == <<src, cell, tmp, dst, offset, dl_pc, run, streamed, interrupted_at, last_csum,
           report>>
idleVars == <<now, last_recv, transfer_idle_lifetime, inbox, last_arrival>>
readerVars == <<rd_len, rd_size, rd_touched, rd_total, rd_yielded, rd_last, rd_mods>>
dispatchVars == <<file_progress, dp_journal, dp_handled>>
csumVars == <<cs_db, cs_cells, cs_wire, cs_pc, cs_to_fetch, cs_saves, cs_conn, cs_nrep,
             cs_loaded, cs_reported, cs_last>>
validateVars == <<vd_pc, vd_cell, vd_req, vd_loop, vd_idle, vd_lifetime, vd_digest>>
extVars == <<readerVars, dispatchVars, csumVars, validateVars>>
auxVars == <<negVars, dlVars, idleVars, extVars>>
vars == <<engineVars, storageVars, auxVars>>

(***************************************************************************)
(* Bounds of the model                                                     *)
(***************************************************************************)
\* host calls and peer frames of one run, together
MaxInputs == 3
\* progress reports of the download sub-tasks of one run
MaxProgress == 1

Files == {"f1", "f2"}
Transfers == {"T1", "T2"}
NoFile == "-"

(***************************************************************************)
(* Events of the host-facing event stream                                  *)
(***************************************************************************)
EvErr(k, f, sid, by_peer, err) ==
    [k |-> k, f |-> f, sid |-> sid, by_peer |-> by_peer, err |-> err]
Ev(k, f, sid, by_peer) == EvErr(k, f, sid, by_peer, "none")

FileKinds == {"Started", "Progress", "Success", "Failed", "Cancelled", "Rejected"}
TerminalKinds == {"Success", "Failed", "Cancelled"}

Emit(es) == /\ events' = events \o es
            /\ bus' = bus \o es

(***************************************************************************)
(* FileEventTx: the per-sub-task event gate.  start sends the event unless *)
(* already started; emit and stop send only when started; stop and         *)
(* stop_silent clear the flag.  Each yields <<new flag, events sent>>.     *)
(***************************************************************************)
EvStart(started, e) == IF started THEN <<TRUE, <<>>>> ELSE <<TRUE, <<e>>>>
EvEmit(started, e) == IF started THEN <<TRUE, <<e>>>> ELSE <<FALSE, <<>>>>
EvStop(started, e) == IF started THEN <<FALSE, <<e>>>> ELSE <<FALSE, <<>>>>

(***************************************************************************)
(* Sub-tasks                                                               *)
(***************************************************************************)
Job(f, st, started) == [f |-> f, st |-> st, started |-> started]

IsFinished(j) == j.st \in {"fin_ok", "fin_err", "aborted"}
HasTask(f) == tasks[f] # 0
TaskOf(f) == jobs[tasks[f]]
LoopAlive == pc \in {"select", "recv"}

\* JoinHandle::abort of the task of f followed by dropping it from the map
AbortTask(f) == IF HasTask(f) /\ ~IsFinished(TaskOf(f))
                THEN [jobs EXCEPT ![tasks[f]].st = "aborted", ![tasks[f]].started = FALSE]
                ELSE jobs


(***************************************************************************)
(* Wire messages and frames                                                *)
(***************************************************************************)
Msg(k, f) == [k |-> k, f |-> f]

\* frames the sender loop can receive (v2::ServerMsg and the WS frame kinds)
ClientFrames == {Msg(k, f) : k \in {"Progress", "Done", "Error", "Start", "Cancel"}, f \in Files}
                \cup {Msg("Error", NoFile)}
                \cup {Msg("Close", NoFile), Msg("Bad", NoFile), Msg("Eof", NoFile)}
\* frames the receiver loop can receive (v4::ClientMsg and the WS frame kinds)
ServerFrames == {Msg(k, f) : k \in {"Error", "Cancel"}, f \in Files}
                \cup {Msg("Error", NoFile)}
                \cup {Msg("Close", NoFile), Msg("Bad", NoFile), Msg("Eof", NoFile)}
FramesOf(r) == IF r = "client" THEN ClientFrames ELSE ServerFrames

(***************************************************************************)
(* TransferManager                                                         *)
(***************************************************************************)
\* TransferManager::ensure_file_not_rejected
ensure_file_not_rejected(f) ==
    IF ~registered THEN "BadTransfer"
    ELSE IF f \in rejections THEN "Rejected"
    ELSE "Ok"

(***************************************************************************)
(* Handlers of the message loops.  Each gives jobs', tasks' and the events *)
(* it sends; the caller gives wire'.                                       *)
(***************************************************************************)
Running(f) == HasTask(f) /\ ~IsFinished(TaskOf(f))

\* HandlerLoop::on_stop: abort every task of the map, stop_silent its events
StoppedJobs == [s \in DOMAIN jobs |->
                  IF (\E f \in Files : tasks[f] = s) /\ ~IsFinished(jobs[s])
                  THEN Job(jobs[s].f, "aborted", FALSE)
                  ELSE IF \E f \in Files : tasks[f] = s
                       THEN Job(jobs[s].f, jobs[s].st, FALSE)
                       ELSE jobs[s]]

on_stop ==
    /\ jobs' = StoppedJobs
    /\ tasks' = [f \in Files |-> 0]

\* HandlerLoop::on_close: on_stop, then TransferCanceled
on_close(by_peer) ==
    /\ on_stop
    /\ Emit(<<Ev("TransferCanceled", NoFile, 0, by_peer)>>)

\* HandlerLoop::on_stop followed by HandlerLoop::finalize_failure
finalize_failure(err) ==
    /\ on_stop
    /\ Emit(<<EvErr("TransferFailed", NoFile, 0, FALSE, err)>>)

\* HandlerLoop::on_cancel (the same in both roles)
on_cancel(f, by_peer) ==
    /\ tasks' = [tasks EXCEPT ![f] = 0]
    /\ jobs' = AbortTask(f)
    /\ Emit(IF Running(f)
            THEN EvStop(TaskOf(f).started, Ev("Cancelled", f, tasks[f], by_peer))[2]
            ELSE <<>>)

\* a variant of issue_reject that leaves the sub-task of the file running
issue_reject_keeps_task(f) ==
    /\ UNCHANGED <<tasks, jobs>>
    /\ Emit(<<Ev("Rejected", f, 0, FALSE)>>)

\* HandlerLoop::issue_reject after its socket send (the same in both roles)
issue_reject(f) ==
    /\ tasks' = [tasks EXCEPT ![f] = 0]
    /\ jobs' = AbortTask(f)
    /\ Emit((IF Running(f)
             THEN EvStop(TaskOf(f).started, Ev("Cancelled", f, tasks[f], FALSE))[2]
             ELSE <<>>)
            \o <<Ev("Rejected", f, 0, FALSE)>>)

\* client HandlerLoop::on_progress
on_progress(f) ==
    /\ UNCHANGED <<tasks, jobs>>
    /\ Emit(IF HasTask(f)
            THEN EvEmit(TaskOf(f).started, Ev("Progress", f, tasks[f], FALSE))[2]
            ELSE <<>>)

\* a variant of on_done that reports success and leaves the task and its gate as they were
on_done_keeps_task(f) ==
    /\ UNCHANGED <<tasks, jobs>>
    /\ Emit(IF HasTask(f)
            THEN EvStop(TaskOf(f).started, Ev("Success", f, tasks[f], FALSE))[2]
            ELSE <<>>)

\* client HandlerLoop::on_done: the task leaves the map and is not aborted
on_done(f) ==
    /\ tasks' = [tasks EXCEPT ![f] = 0]
    /\ jobs' = IF HasTask(f) THEN [jobs EXCEPT ![tasks[f]].started = FALSE] ELSE jobs
    /\ Emit(IF HasTask(f)
            THEN EvStop(TaskOf(f).started, Ev("Success", f, tasks[f], FALSE))[2]
            ELSE <<>>)

\* FileTask::new / FileTask::start: spawn the sub-task of f and put it in the map
SpawnTask(f) ==
    /\ jobs' = Append(jobs, Job(f, "new", FALSE))
    /\ tasks' = [tasks EXCEPT ![f] = Len(jobs) + 1]

\* client HandlerLoop::on_download (a Start message of the peer)
on_download(f) ==
    /\ IF ensure_file_not_rejected(f) = "Ok" /\ ~Running(f)
       THEN SpawnTask(f)
       ELSE UNCHANGED <<tasks, jobs>>
    /\ Emit(<<>>)

\* client HandlerLoop::on_error: the terminal event is sent also for a finished job
client_on_error(f) ==
    IF f = NoFile
    THEN UNCHANGED <<tasks, jobs>> /\ Emit(<<>>)
    ELSE
    /\ tasks' = [tasks EXCEPT ![f] = 0]
    /\ jobs' = IF HasTask(f)
               THEN [AbortTask(f) EXCEPT ![tasks[f]].started = FALSE]
               ELSE jobs
    /\ Emit(IF HasTask(f)
            THEN EvStop(TaskOf(f).started,
                        EvErr("Failed", f, tasks[f], FALSE, "BadTransferState"))[2]
            ELSE <<>>)

\* server HandlerLoop::on_error: only a running job is aborted and reported
server_on_error(f) ==
    IF f = NoFile
    THEN UNCHANGED <<tasks, jobs>> /\ Emit(<<>>)
    ELSE
    /\ tasks' = [tasks EXCEPT ![f] = 0]
    /\ jobs' = AbortTask(f)
    /\ Emit(IF Running(f)
            THEN EvStop(TaskOf(f).started,
                        EvErr("Failed", f, tasks[f], FALSE, "BadTransferState"))[2]
            ELSE <<>>)

\* server HandlerLoop::issue_download, when f is running or its checksum cell exists
issue_download(f) ==
    /\ IF Running(f) THEN UNCHANGED <<tasks, jobs>> ELSE SpawnTask(f)
    /\ Emit(<<>>)

(***************************************************************************)
(* Storage: the journal tables.  A file row is [present, states]; states   *)
(* is the row's state events in insertion order.                           *)
(***************************************************************************)
NoRow == [present |-> FALSE, states |-> <<>>]
\* no TransferInfo is remembered for a transfer id
NoInfo == [known |-> FALSE, purged |-> FALSE]
\* the transfer that had the id was purged
Purged == [known |-> FALSE, purged |-> TRUE]
EmptyRow == [present |-> TRUE, states |-> <<>>]
\* a state event: its kind, its by_peer column and its created_at column
St(k, by_peer) == [k |-> k, by_peer |-> by_peer, at |-> st_now]

\* Storage::insert_*_path_*_state: the sub-select finds the row or nothing is inserted
InsertPathState(tbl, t, f, s) ==
    IF tbl[<<t, f>>].present
    THEN [tbl EXCEPT ![<<t, f>>].states = Append(@, s)]
    ELSE tbl

\* Storage::insert_transfer_*_state
InsertTransferState(tbl, t, s) ==
    IF tbl[t].present
    THEN [tbl EXCEPT ![t].states = Append(@, s)]
    ELSE tbl

RECURSIVE InsertPending(_, _, _)
\* StorageDispatch::handle_event, Event::Pending: one pending state per file
InsertPending(tbl, t, fs) ==
    IF fs = {} THEN tbl
    ELSE LET f == CHOOSE x \in fs : TRUE
         IN InsertPending(InsertPathState(tbl, t, f, St("Pending", FALSE)), t, fs \ {f})

\* From<&crate::Event>: the journal kind of a per-file event
JournalKind(k) ==
    CASE k = "Started" -> "Started"
      [] k = "Cancelled" -> "Cancel"
      [] k = "Failed" -> "Failed"
      [] k = "Success" -> "Completed"
      [] k = "Rejected" -> "Reject"
      [] OTHER -> "None"

\* StorageDispatch::handle_event for an event of transfer T1
handle_event(e) ==
    LET out == role = "client"
        s == St(JournalKind(e.k), e.by_peer)
    IN
    IF e.k = "Queued"
    THEN /\ st_out' = IF out THEN InsertPending(st_out, "T1", Files) ELSE st_out
         /\ st_in' = IF out THEN st_in ELSE InsertPending(st_in, "T1", Files)
         /\ UNCHANGED st_xfers
    ELSE IF e.k \in {"TransferCanceled", "TransferFailed"}
    THEN /\ st_xfers' = InsertTransferState(st_xfers, "T1",
                            St(IF e.k = "TransferCanceled" THEN "Cancel" ELSE "Failed", e.by_peer))
         /\ UNCHANGED <<st_out, st_in>>
    ELSE IF e.k = "Progress"
    THEN UNCHANGED <<st_xfers, st_out, st_in>>
    ELSE /\ st_out' = IF out THEN InsertPathState(st_out, "T1", e.f, s) ELSE st_out
         /\ st_in' = IF out THEN st_in ELSE InsertPathState(st_in, "T1", e.f, s)
         /\ UNCHANGED st_xfers

StRet(op, t, f, res) == [op |-> op, t |-> t, f |-> f, res |-> res]

\* the connection is established: no negotiation is under way
NegIdle ==
    /\ max_retry_interval = 0
    /\ req_timeout = 0
    /\ sleep_time = 0
    /\ elapsed = 0
    /\ nretry = 0
    /\ tried = <<>>
    /\ ver = "none"
    /\ handler = "none"

NoData == [exists |-> FALSE, data |-> <<>>]

\* init has not asked the sender for a checksum
NoReport == [limit |-> 0 - 1, checksum |-> 0]

\* no download is modelled byte by byte
DlIdle ==
    /\ src = <<>>
    /\ cell = 0
    /\ tmp = NoData
    /\ dst = NoData
    /\ offset = 0
    /\ dl_pc = "idle"
    /\ run = 0
    /\ streamed = 0
    /\ interrupted_at = 0
    /\ last_csum = 0
    /\ report = NoReport

\* read_chunk has not been called
NoRead == [n |-> 0, io_ok |-> TRUE, meta_ok |-> TRUE, res |-> "none", touched |-> FALSE,
           total |-> 0]

\* no file is read chunk by chunk
ReaderIdle ==
    /\ rd_len = 0
    /\ rd_size = 0
    /\ rd_touched = FALSE
    /\ rd_total = 0
    /\ rd_yielded = 0
    /\ rd_last = NoRead
    /\ rd_mods = 0

\* the (transfer, file) pairs the Storage Dispatcher is followed for
Keys == {<<"T1", "f1">>, <<"T2", "f1">>}
\* HashMap::get of a key that is not in the map, and of one that is
NoEntry == [some |-> FALSE, v |-> 0]
Entry(v) == [some |-> TRUE, v |-> v]

\* StorageDispatch::new: the map is empty
DispatchIdle ==
    /\ file_progress = [key \in Keys |-> NoEntry]
    /\ dp_journal = [key \in Keys |-> <<>>]
    /\ dp_handled = <<>>

\* a file without a row in incoming_paths, a row whose checksum is NULL, a row with one
NoPath == [row |-> FALSE, some |-> FALSE, v |-> 0]
Null == [row |-> TRUE, some |-> FALSE, v |-> 0]
Saved(v) == [row |-> TRUE, some |-> TRUE, v |-> v]
\* a file without a cell in the map, an empty AsyncCell, a filled one
NoCell == [has |-> FALSE, some |-> FALSE, v |-> 0]
EmptyCell == [has |-> TRUE, some |-> FALSE, v |-> 0]
Full(v) == [has |-> TRUE, some |-> TRUE, v |-> v]
\* no ReportChsum has been handled
NoChsum == [op |-> "none", file |-> NoFile, limit |-> 0, checksum |-> 0, met |-> NoCell]

\* no V3+ server loop with checksum cells is modelled
CsumIdle ==
    /\ cs_db = [f \in Files |-> NoPath]
    /\ cs_cells = [f \in Files |-> NoCell]
    /\ cs_wire = <<>>
    /\ cs_pc = "idle"
    /\ cs_to_fetch = <<>>
    /\ cs_saves = {}
    /\ cs_conn = 0
    /\ cs_nrep = 0
    /\ cs_loaded = [f \in Files |-> NoPath]
    /\ cs_reported = {}
    /\ cs_last = NoChsum

\* no download sub-task waiting for its checksum cell is modelled
ValidateIdle ==
    /\ vd_pc = "none"
    /\ vd_cell = NoCell
    /\ vd_req = "queued"
    /\ vd_loop = "none"
    /\ vd_idle = 0
    /\ vd_lifetime = 0
    /\ vd_digest = 0

\* nothing but the engine, the journal, the connection, the download and the idle
\* timer is modelled
ExtIdle == ReaderIdle /\ DispatchIdle /\ CsumIdle /\ ValidateIdle

\* no idle timer is modelled
IdleIdle ==
    /\ now = 0
    /\ last_recv = 0
    /\ transfer_idle_lifetime = 0
    /\ inbox = <<>>
    /\ last_arrival = 0

(***************************************************************************)
(* The initial state: transfer T1 exists, its journal rows are written,    *)
(* the connection is established and the loop is about to start.           *)
(***************************************************************************)
Init ==
    /\ role \in {"client", "server"}
    /\ pc = "init"
    /\ cur = Msg("None", NoFile)
    /\ registered = FALSE
    /\ rejections = {}
    /\ api_q = <<>>
    /\ jobs = <<>>
    /\ tasks = [f \in Files |-> 0]
    /\ checksums = Files
    /\ events = <<>>
    /\ bus = <<>>
    /\ wire = <<>>
    /\ ret = [op |-> "none", f |-> NoFile, res |-> "none", sent |-> FALSE,
              pre |-> FALSE, reg |-> FALSE]
    /\ ncalls = 0
    /\ nframes = 0
    /\ nprog = 0
    /\ ever_rejected = {}
    /\ st_xfers = [t \in Transfers |-> IF t = "T1" THEN EmptyRow ELSE NoRow]
    /\ st_out = [p \in Transfers \X Files |->
                   IF p[1] = "T1" /\ role = "client" THEN EmptyRow ELSE NoRow]
    /\ st_in = [p \in Transfers \X Files |->
                   IF p[1] = "T1" /\ role = "server" THEN EmptyRow ELSE NoRow]
    /\ st_ret = StRet("none", "-", NoFile, "none")
    /\ st_now = 0
    /\ st_calls = 0
    /\ st_inserted = [t \in Transfers |-> NoInfo]
    /\ NegIdle
    /\ DlIdle
    /\ IdleIdle
    /\ ExtIdle

(***************************************************************************)
(* The message loop (RunContext::run and its server twin)                  *)
(***************************************************************************)
NoFrame == Msg("None", NoFile)
TransferEv(k, by_peer) == Ev(k, NoFile, 0, by_peer)

\* RunContext::start succeeds: the transfer is registered, the request event is sent
LoopStart ==
    /\ pc = "init"
    /\ pc' = "select"
    /\ registered' = TRUE
    /\ Emit(<<TransferEv("Queued", FALSE)>>)
    /\ UNCHANGED <<role, cur, rejections, api_q, jobs, tasks, checksums, wire, ret,
                   ncalls, nframes, nprog, ever_rejected, storageVars, auxVars>>

\* RunContext::run when start fails: TransferFailed, the loop is never entered
LoopStartFail ==
    /\ pc = "init"
    /\ pc' = "failed"
    /\ Emit(<<TransferEv("TransferFailed", FALSE)>>)
    /\ UNCHANGED <<role, cur, registered, rejections, api_q, jobs, tasks, checksums, wire,
                   ret, ncalls, nframes, nprog, ever_rejected, storageVars, auxVars>>

\* the loop ends with an error: on_stop, finalize_failure, the request channel is dropped
LoopFail(err) ==
    /\ finalize_failure(err)
    /\ pc' = "failed"
    /\ api_q' = <<>>
    /\ cur' = NoFrame

\* the loop ends after on_close
LoopClose(by_peer) ==
    /\ on_close(by_peer)
    /\ pc' = "done"
    /\ api_q' = <<>>
    /\ cur' = NoFrame

\* the api_req branch of the select with a request: HandlerLoop::on_req
LoopApiReq ==
    /\ pc = "select"
    /\ api_q # <<>>
    /\ LET req == Head(api_q) IN
       \E sent \in BOOLEAN :
          IF req.op = "Download"
          THEN IF Running(req.f) \/ req.f \in checksums
               THEN /\ issue_download(req.f)
                    /\ api_q' = Tail(api_q)
                    /\ UNCHANGED <<pc, cur, wire>>
               ELSE LoopFail("BadTransferState") /\ UNCHANGED wire
          ELSE IF ~sent
          THEN LoopFail("Ws") /\ UNCHANGED wire
          ELSE /\ wire' = Append(wire, Msg("Cancel", req.f))
               /\ IF req.op = "Cancel" THEN on_cancel(req.f, FALSE) ELSE issue_reject(req.f)
               /\ api_q' = Tail(api_q)
               /\ UNCHANGED <<pc, cur>>
    /\ UNCHANGED <<role, registered, rejections, checksums, ret, ncalls, nframes, nprog,
                   ever_rejected, storageVars, auxVars>>

\* the api_req branch of the select when every sender is gone (cancel_all)
LoopApiClosed ==
    /\ pc = "select"
    /\ api_q = <<>>
    /\ ~registered
    /\ \E closed \in BOOLEAN :
          IF closed
          THEN LoopClose(FALSE) /\ wire' = Append(wire, Msg("Close", NoFile))
          ELSE LoopFail("Ws") /\ UNCHANGED wire
    /\ UNCHANGED <<role, registered, rejections, checksums, ret, ncalls, nframes, nprog,
                   ever_rejected, storageVars, auxVars>>

\* the recv branch of the biased select: taken only when no request is ready
LoopSelectRecv ==
    /\ pc = "select"
    /\ api_q = <<>>
    /\ registered
    /\ ncalls + nframes < MaxInputs
    /\ \E m \in FramesOf(role) : cur' = m
    /\ pc' = "recv"
    /\ nframes' = nframes + 1
    /\ UNCHANGED <<role, registered, rejections, api_q, jobs, tasks, checksums, events, bus,
                   wire, ret, ncalls, nprog, ever_rejected, storageVars, auxVars>>

\* HandlerLoop::on_recv of the picked frame
LoopOnRecv ==
    /\ pc = "recv"
    /\ IF cur.k = "Close" THEN LoopClose(TRUE)
       ELSE IF cur.k = "Bad" THEN LoopFail("BadTransferState")
       ELSE IF cur.k = "Eof"
       THEN /\ on_stop
            /\ Emit(<<>>)
            /\ pc' = "done"
            /\ api_q' = <<>>
            /\ cur' = NoFrame
       ELSE /\ CASE cur.k = "Progress" -> on_progress(cur.f)
                 [] cur.k = "Done" -> on_done(cur.f)
                 [] cur.k = "Start" -> on_download(cur.f)
                 [] cur.k = "Cancel" -> on_cancel(cur.f, TRUE)
                 [] cur.k = "Error" -> IF role = "client" THEN client_on_error(cur.f)
                                       ELSE server_on_error(cur.f)
            /\ pc' = "select"
            /\ cur' = NoFrame
            /\ UNCHANGED api_q
    /\ UNCHANGED <<role, registered, rejections, checksums, wire, ret, ncalls, nframes, nprog,
                   ever_rejected, storageVars, auxVars>>

\* TransferGuard dropped at the end of run: the transfer leaves the TransferManager
GuardDrop ==
    /\ pc \in {"done", "failed"}
    /\ registered
    /\ registered' = FALSE
    /\ rejections' = {}
    /\ UNCHANGED <<role, pc, cur, api_q, jobs, tasks, checksums, events, bus, wire, ret,
                   ncalls, nframes, nprog, ever_rejected, storageVars, auxVars>>

(***************************************************************************)
(* Per-file sub-tasks: the upload job of start_upload (sender) and the     *)
(* download job of FileXferTask::run (receiver).  A job that left the task *)
(* map without being aborted keeps running.                                *)
(***************************************************************************)
\* every spawn takes a Start frame or a download call
JobIds == 1..MaxInputs

SendIfAlive(m) == IF LoopAlive THEN Append(wire, m) ELSE wire

\* the job's first step: events.start(File*Started); the receiver's job also sends Start
JobStart(s) ==
    /\ s \in DOMAIN jobs
    /\ jobs[s].st = "new"
    /\ LET r == EvStart(jobs[s].started, Ev("Started", jobs[s].f, s, FALSE)) IN
       /\ jobs' = [jobs EXCEPT ![s].st = "run", ![s].started = r[1]]
       /\ Emit(r[2])
    /\ wire' = IF role = "server" THEN SendIfAlive(Msg("Start", jobs[s].f)) ELSE wire
    /\ UNCHANGED <<role, pc, cur, registered, rejections, api_q, tasks, checksums, ret,
                   ncalls, nframes, nprog, ever_rejected, storageVars, auxVars>>

\* the download job reports progress after a chunk
JobProgress(s) ==
    /\ role = "server"
    /\ s \in DOMAIN jobs
    /\ jobs[s].st = "run"
    /\ nprog < MaxProgress
    /\ nprog' = nprog + 1
    /\ LET r == EvEmit(jobs[s].started, Ev("Progress", jobs[s].f, s, FALSE)) IN
       /\ jobs' = [jobs EXCEPT ![s].started = r[1]]
       /\ Emit(r[2])
    /\ wire' = SendIfAlive(Msg("Progress", jobs[s].f))
    /\ UNCHANGED <<role, pc, cur, registered, rejections, api_q, tasks, checksums, ret,
                   ncalls, nframes, ever_rejected, storageVars, auxVars>>

\* the job ends well: the upload job sends no event (the peer's Done does), the
\* download job sends Done and stops its events with File*Success
JobFinishOk(s) ==
    /\ s \in DOMAIN jobs
    /\ jobs[s].st = "run"
    /\ LET r == IF role = "server"
                THEN EvStop(jobs[s].started, Ev("Success", jobs[s].f, s, FALSE))
                ELSE <<jobs[s].started, <<>>>> IN
       /\ jobs' = [jobs EXCEPT ![s].st = "fin_ok", ![s].started = r[1]]
       /\ Emit(r[2])
    /\ wire' = IF role = "server" THEN SendIfAlive(Msg("Done", jobs[s].f)) ELSE wire
    /\ UNCHANGED <<role, pc, cur, registered, rejections, api_q, tasks, checksums, ret,
                   ncalls, nframes, nprog, ever_rejected, storageVars, auxVars>>

\* what a read of the file being uploaded meets: the read itself works or not, it
\* gives n bytes, which makes total bytes of a file that had len bytes when the
\* transfer was made, and the modification time is the same or not
ReadInputs ==
    [io_ok : BOOLEAN, mtime_ok : BOOLEAN, n : {0, 1}, total : {1, 2, 3}, len : {2}]

\* a variant of read_chunk that does not compare the cumulative read with the size
read_chunk_unbounded(r) ==
    IF ~r.io_ok THEN "Io"
    ELSE IF ~r.mtime_ok THEN "FileModified"
    ELSE IF r.n = 0
    THEN IF r.total # r.len THEN "MismatchedSize" ELSE "None"
    ELSE "Some"

\* FileReader::read_chunk
read_chunk(r) ==
    IF ~r.io_ok THEN "Io"
    ELSE IF ~r.mtime_ok THEN "FileModified"
    ELSE IF r.n = 0
    THEN IF r.total # r.len THEN "MismatchedSize" ELSE "None"
    ELSE IF r.total > r.len THEN "MismatchedSize"
    ELSE "Some"

\* the errors that end a job: of read_chunk in the upload job, of the file system in
\* the download job
JobErrors(r) ==
    IF r = "client"
    THEN {read_chunk(x) : x \in ReadInputs} \ {"None", "Some"}
    ELSE {"Io"}

\* a variant of the failing job that tells the peer nothing
JobFailSilent(s) ==
    /\ s \in DOMAIN jobs
    /\ jobs[s].st = "run"
    /\ \E err \in JobErrors(role) :
       LET r == EvStop(jobs[s].started, EvErr("Failed", jobs[s].f, s, FALSE, err)) IN
       /\ jobs' = [jobs EXCEPT ![s].st = "fin_err", ![s].started = r[1]]
       /\ Emit(r[2])
    /\ wire' = wire
    /\ UNCHANGED <<role, pc, cur, registered, rejections, api_q, tasks, checksums, ret,
                   ncalls, nframes, nprog, ever_rejected, storageVars, auxVars>>

\* the job ends with an error: Error to the peer, events.stop(File*Failed)
JobFail(s) ==
    /\ s \in DOMAIN jobs
    /\ jobs[s].st = "run"
    /\ \E err \in JobErrors(role) :
       LET r == EvStop(jobs[s].started, EvErr("Failed", jobs[s].f, s, FALSE, err)) IN
       /\ jobs' = [jobs EXCEPT ![s].st = "fin_err", ![s].started = r[1]]
       /\ Emit(r[2])
    /\ wire' = SendIfAlive(Msg("Error", jobs[s].f))
    /\ UNCHANGED <<role, pc, cur, registered, rejections, api_q, tasks, checksums, ret,
                   ncalls, nframes, nprog, ever_rejected, storageVars, auxVars>>

(***************************************************************************)
(* The Service facade                                                      *)
(***************************************************************************)
\* the record of a call: its result, whether it queued a request, and (history) whether
\* the file's rejection had been recorded and the transfer was registered when it was made
Ret(op, f, res, sent) ==
    [op |-> op, f |-> f, res |-> res, sent |-> sent,
     pre |-> f \in ever_rejected, reg |-> registered]
Req(op, f) == [op |-> op, f |-> f]

\* sending on the connection's channel fails once the loop dropped the receiver
ChannelOpen == pc \in {"select", "recv"}

\* a file id that is not among the files of the transfer
UnknownFile == "f0"
\* the symlinks on the receiver's disk
Symlinks == {<<"lnk">>}
\* the directories std::fs::create_dir_all fails in
ReadOnlyDirs == {<<"ro">>}
\* parent_dir: the directories the host asks to download into, as path components
Dirs == {<<"dl">>, <<"dl", "..", "etc">>, <<"lnk">>, <<"lnk", "sub">>, <<"ro">>}

\* parent_dir.join(apply_dir_mapping(uuid, parent_dir, file_id)): the file's subpath is
\* its id
absolute_path(dir, f) == dir \o <<f>>
\* absolute_path.components().any(|x| x == Component::ParentDir)
HasParentDir(path) == \E i \in DOMAIN path : path[i] = ".."
\* Path::parent
parent(path) == SubSeq(path, 1, Len(path) - 1)
\* Path::ancestors: the path itself and every prefix of it
ancestors(path) == {SubSeq(path, 1, n) : n \in 0..Len(path)}
\* parent_location.ancestors().any(Path::is_symlink)
SymlinkAncestor(path) == \E a \in ancestors(parent(path)) : a \in Symlinks
\* fs::create_dir_all(parent_location)
CreateDirFails(path) == \E a \in ancestors(parent(path)) : a \in ReadOnlyDirs

\* a variant of the path checks that looks for symlinks above the parent directory
\* only
PathCheckAbove(dir, f) ==
    IF f \notin Files THEN "BadFileId"
    ELSE IF HasParentDir(absolute_path(dir, f)) THEN "BadPath"
    ELSE IF \E a \in ancestors(parent(parent(absolute_path(dir, f)))) : a \in Symlinks
         THEN "BadPath"
    ELSE IF CreateDirFails(absolute_path(dir, f)) THEN "BadPath"
    ELSE "Ok"

\* the checks of Service::download after the reject and the connection were looked up
PathCheck(dir, f) ==
    IF f \notin Files THEN "BadFileId"
    ELSE IF HasParentDir(absolute_path(dir, f)) THEN "BadPath"
    ELSE IF SymlinkAncestor(absolute_path(dir, f)) THEN "BadPath"
    ELSE IF CreateDirFails(absolute_path(dir, f)) THEN "BadPath"
    ELSE "Ok"

\* a variant of Service::download without the rejection check
Service_download_unchecked(f, dir) ==
    /\ ncalls + nframes < MaxInputs
    /\ ncalls' = ncalls + 1
    /\ LET res == IF ~registered \/ role # "server" THEN "BadTransfer"
                  ELSE IF PathCheck(dir, f) # "Ok" THEN PathCheck(dir, f)
                  ELSE IF ~ChannelOpen THEN "BadTransferState"
                  ELSE "Ok" IN
       /\ api_q' = IF res = "Ok" THEN Append(api_q, Req("Download", f)) ELSE api_q
       /\ ret' = Ret("download", f, res, res = "Ok")
    /\ UNCHANGED <<role, pc, cur, registered, rejections, jobs, tasks, checksums, events,
                   bus, wire, nframes, nprog, ever_rejected, storageVars, auxVars>>

\* Service::download
Service_download(f, dir) ==
    /\ ncalls + nframes < MaxInputs
    /\ ncalls' = ncalls + 1
    /\ LET res == IF ensure_file_not_rejected(f) # "Ok" THEN ensure_file_not_rejected(f)
                  ELSE IF role # "server" THEN "BadTransfer"
                  ELSE IF PathCheck(dir, f) # "Ok" THEN PathCheck(dir, f)
                  ELSE IF ~ChannelOpen THEN "BadTransferState"
                  ELSE "Ok" IN
       /\ api_q' = IF res = "Ok" THEN Append(api_q, Req("Download", f)) ELSE api_q
       /\ ret' = Ret("download", f, res, res = "Ok")
    /\ UNCHANGED <<role, pc, cur, registered, rejections, jobs, tasks, checksums, events,
                   bus, wire, nframes, nprog, ever_rejected, storageVars, auxVars>>

\* Service::cancel
Service_cancel(f) ==
    /\ ncalls + nframes < MaxInputs
    /\ ncalls' = ncalls + 1
    /\ LET res == IF ensure_file_not_rejected(f) # "Ok" THEN ensure_file_not_rejected(f)
                  ELSE IF ~ChannelOpen THEN "BadTransferState"
                  ELSE "Ok" IN
       /\ api_q' = IF res = "Ok" THEN Append(api_q, Req("Cancel", f)) ELSE api_q
       /\ ret' = Ret("cancel", f, res, res = "Ok")
    /\ UNCHANGED <<role, pc, cur, registered, rejections, jobs, tasks, checksums, events,
                   bus, wire, nframes, nprog, ever_rejected, storageVars, auxVars>>

\* a variant of Service::reject that sends the request whatever reject_file answers
Service_reject_resends(f) ==
    /\ ncalls + nframes < MaxInputs
    /\ ncalls' = ncalls + 1
    /\ LET res == IF ~registered THEN "BadTransfer"
                  ELSE IF ~ChannelOpen THEN "BadTransferState"
                  ELSE "Ok"
           recorded == registered /\ f \notin rejections IN
       /\ rejections' = IF recorded THEN rejections \cup {f} ELSE rejections
       /\ ever_rejected' = IF recorded THEN ever_rejected \cup {f} ELSE ever_rejected
       /\ api_q' = IF res = "Ok" THEN Append(api_q, Req("Reject", f)) ELSE api_q
       /\ ret' = Ret("reject", f, res, res = "Ok")
    /\ UNCHANGED <<role, pc, cur, registered, jobs, tasks, checksums, events,
                   bus, wire, nframes, nprog, storageVars, auxVars>>

\* Service::reject: TransferManager::reject_file, then the Reject request
Service_reject(f) ==
    /\ ncalls + nframes < MaxInputs
    /\ ncalls' = ncalls + 1
    /\ LET res == IF ~registered THEN "BadTransfer"
                  ELSE IF f \in rejections THEN "Rejected"
                  ELSE IF ~ChannelOpen THEN "BadTransferState"
                  ELSE "Ok"
           recorded == registered /\ f \notin rejections IN
       /\ rejections' = IF recorded THEN rejections \cup {f} ELSE rejections
       /\ ever_rejected' = IF recorded THEN ever_rejected \cup {f} ELSE ever_rejected
       /\ api_q' = IF res = "Ok" THEN Append(api_q, Req("Reject", f)) ELSE api_q
       /\ ret' = Ret("reject", f, res, res = "Ok")
    /\ UNCHANGED <<role, pc, cur, registered, jobs, tasks, checksums, events,
                   bus, wire, nframes, nprog, storageVars, auxVars>>

\* a variant of Service::cancel_all whose cancel_transfer fails: the error is logged,
\* the entry stays and the call returns Ok
Service_cancel_all_logs_error ==
    /\ ncalls + nframes < MaxInputs
    /\ ncalls' = ncalls + 1
    /\ ret' = Ret("cancel_all", NoFile, IF registered THEN "Ok" ELSE "BadTransfer", FALSE)
    /\ UNCHANGED <<role, pc, cur, registered, rejections, api_q, jobs, tasks, checksums,
                   events, bus, wire, nframes, nprog, ever_rejected, storageVars, auxVars>>

\* Service::cancel_all: TransferManager::cancel_transfer drops the entry and its channel
Service_cancel_all ==
    /\ ncalls + nframes < MaxInputs
    /\ ncalls' = ncalls + 1
    /\ registered' = FALSE
    /\ rejections' = {}
    /\ ret' = Ret("cancel_all", NoFile, IF registered THEN "Ok" ELSE "BadTransfer", FALSE)
    /\ UNCHANGED <<role, pc, cur, api_q, jobs, tasks, checksums, events,
                   bus, wire, nframes, nprog, ever_rejected, storageVars, auxVars>>

(***************************************************************************)
(* The host's event loop: each event goes through the Storage Dispatcher   *)
(***************************************************************************)
\* a variant of the host loop that takes the newest event of the bus first
HostDispatchNewestFirst ==
    /\ bus # <<>>
    /\ handle_event(bus[Len(bus)])
    /\ bus' = SubSeq(bus, 1, Len(bus) - 1)
    /\ UNCHANGED <<role, pc, cur, registered, rejections, api_q, jobs, tasks, checksums,
                   events, wire, ret, ncalls, nframes, nprog, ever_rejected, st_ret, st_now,
                   st_calls, st_inserted, auxVars>>

\* the host loop: rx.recv().await, then handle_event inside block_in_place
HostDispatch ==
    /\ bus # <<>>
    /\ handle_event(Head(bus))
    /\ bus' = Tail(bus)
    /\ UNCHANGED <<role, pc, cur, registered, rejections, api_q, jobs, tasks, checksums,
                   events, wire, ret, ncalls, nframes, nprog, ever_rejected, st_ret, st_now,
                   st_calls, st_inserted, auxVars>>

Next ==
    \/ LoopStart
    \/ LoopStartFail
    \/ LoopApiReq
    \/ LoopApiClosed
    \/ LoopSelectRecv
    \/ LoopOnRecv
    \/ GuardDrop
    \/ \E s \in JobIds : JobStart(s)
    \/ \E s \in JobIds : JobProgress(s)
    \/ \E s \in JobIds : JobFinishOk(s)
    \/ \E s \in JobIds : JobFail(s)
    \/ \E f \in Files \cup {UnknownFile}, dir \in Dirs : Service_download(f, dir)
    \/ \E f \in Files : Service_cancel(f)
    \/ \E f \in Files : Service_reject(f)
    \/ Service_cancel_all
    \/ HostDispatch

Spec == Init /\ [][Next]_vars

(***************************************************************************)
(* Properties of the engine                                                *)
(***************************************************************************)
EvIdx == DOMAIN events

\* C1: TransferCanceled is emitted at most once for the transfer, and no per-file
\* event (Started, Progress, Success, Failed, Cancelled, Rejected) follows it.
C1_CanceledOnceAndLast ==
    /\ Cardinality({i \in EvIdx : events[i].k = "TransferCanceled"}) <= 1
    /\ \A i, j \in EvIdx :
          (i < j /\ events[i].k = "TransferCanceled") => events[j].k \notin FileKinds

\* the transfer was cancelled while an upload job that on_done took out of the map was
\* still to run
C1_Witness ==
    /\ \E i \in EvIdx : events[i].k = "TransferCanceled"
    /\ \E s \in DOMAIN jobs : jobs[s].st = "new" /\ \A f \in Files : tasks[f] # s

\* C2: within one sub-task Started is the first event, a terminal event (Success,
\* Failed, Cancelled) is the last one, so there is at most one terminal event and no
\* Progress after it, whatever Cancel, Error or Done of the peer races with the job.
C2_SubTaskOrder ==
    \A j \in EvIdx :
       events[j].sid # 0 =>
          /\ events[j].k # "Started" =>
                \E i \in EvIdx : i < j /\ events[i].sid = events[j].sid /\ events[i].k = "Started"
          /\ \A i \in EvIdx :
                (i < j /\ events[i].sid = events[j].sid) =>
                   /\ events[j].k # "Started"
                   /\ events[i].k \notin TerminalKinds

\* a sub-task that sent Started, then Progress, then Success
C2_Witness ==
    \E i, j, l \in EvIdx :
       /\ i < j /\ j < l
       /\ events[i].sid # 0 /\ events[j].sid = events[i].sid /\ events[l].sid = events[i].sid
       /\ events[i].k = "Started" /\ events[j].k = "Progress" /\ events[l].k = "Success"

\* C3 as stated: once the rejection of a file was recorded, every later download of it
\* returns the rejected error and queues no Download request.
C3_RejectedForever ==
    (ret.op = "download" /\ ret.pre) => (ret.res = "Rejected" /\ ~ret.sent)

\* C3: once the rejection of a file was recorded, a later download of it queues no
\* Download request and returns the rejected error while the transfer is registered,
\* the bad-transfer error once it is not; and handling a Start of the peer for the file
\* spawns no upload job and sends no event.
C3_RejectedWhileRegistered ==
    [][ /\ (ncalls' = ncalls + 1 /\ ret'.op = "download" /\ ret'.f \in ever_rejected) =>
              /\ api_q' = api_q
              /\ ret'.res = IF registered THEN "Rejected" ELSE "BadTransfer"
        /\ (role = "client" /\ pc = "recv" /\ pc' # "recv" /\ cur.k = "Start"
              /\ cur.f \in ever_rejected) =>
              /\ jobs' = jobs
              /\ events' = events ]_vars

\* a download of a rejected file of a registered transfer was refused
C3_Witness ==
    ret.op = "download" /\ ret.pre /\ ret.reg /\ ret.res = "Rejected"

JournalRow(f) == IF role = "client" THEN st_out[<<"T1", f>>] ELSE st_in[<<"T1", f>>]
RejectStates(f) == {i \in DOMAIN JournalRow(f).states : JournalRow(f).states[i].k = "Reject"}

\* C4 as stated: rejecting a file again leaves at most one Rejected event in its
\* journal, returns the rejected error and queues no Reject request.
C4_RejectIdempotent ==
    /\ \A f \in Files : Cardinality(RejectStates(f)) <= 1
    /\ (ret.op = "reject" /\ ret.pre) => (ret.res = "Rejected" /\ ~ret.sent)

\* C4: rejecting a file again leaves at most one Rejected event in its journal and
\* queues no Reject request; it returns the rejected error while the transfer is
\* registered and the bad-transfer error once it is not.
C4_RejectIdempotentWhileRegistered ==
    /\ \A f \in Files : Cardinality(RejectStates(f)) <= 1
    /\ (ret.op = "reject" /\ ret.pre) =>
          /\ ~ret.sent
          /\ ret.res = IF ret.reg THEN "Rejected" ELSE "BadTransfer"

\* a second reject of a file whose Rejected event is in the journal
C4_Witness ==
    /\ ret.op = "reject" /\ ret.pre /\ ret.reg /\ ret.res = "Rejected"
    /\ RejectStates(ret.f) # {}

\* C6: once Completed or Rejected is in a file's journal, no event of another kind is
\* appended after it.
C6_TerminalSticky ==
    \A f \in Files :
       LET sts == JournalRow(f).states IN
       \A i, j \in DOMAIN sts :
          (i < j /\ sts[i].k \in {"Completed", "Reject"}) => sts[j].k = sts[i].k

\* a journal row that holds Completed
C6_Witness ==
    \E f \in Files : \E i \in DOMAIN JournalRow(f).states :
       JournalRow(f).states[i].k = "Completed"

\* the events with sub-task s that the step sends
SentBy(s) == {i \in DOMAIN events' \ DOMAIN events : events'[i].sid = s}
FailedOf(s) == {i \in DOMAIN events' : events'[i].sid = s /\ events'[i].k = "Failed"}

OnErrorStep == role = "server" /\ pc = "recv" /\ pc' # "recv" /\ cur.k = "Error"

\* C13 as stated: an Error naming a file whose download job is running aborts the job
\* and sends exactly one FileDownloadFailed{BadTransferState} for the file.
C13_ErrorFailsRunningTask ==
    [][ (OnErrorStep /\ cur.f \in Files /\ Running(cur.f)) =>
           /\ jobs'[tasks[cur.f]].st = "aborted"
           /\ events' = Append(events,
                           EvErr("Failed", cur.f, tasks[cur.f], FALSE, "BadTransferState")) ]_vars

\* C13: an Error naming a file whose download job is running aborts the job and takes
\* it out of the map; FileDownloadFailed{BadTransferState} is sent for the file exactly
\* when the job had sent FileDownloadStarted, and nothing when it had not; the jobs of
\* other files are unchanged and an aborted job sends no event.  An Error without a
\* file or for a file without a running job sends no event and changes no job.
C13_ErrorFailsStartedTask ==
    [][ /\ (OnErrorStep /\ cur.f \in Files /\ Running(cur.f)) =>
              /\ jobs'[tasks[cur.f]].st = "aborted"
              /\ tasks' = [tasks EXCEPT ![cur.f] = 0]
              /\ events' = IF TaskOf(cur.f).started
                           THEN Append(events, EvErr("Failed", cur.f, tasks[cur.f], FALSE,
                                                     "BadTransferState"))
                           ELSE events
              /\ Cardinality(FailedOf(tasks[cur.f])) <= 1
              /\ \A o \in DOMAIN jobs \ {tasks[cur.f]} : jobs'[o] = jobs[o]
              /\ pc' = "select"
        /\ (OnErrorStep /\ (cur.f = NoFile \/ ~Running(cur.f))) =>
              /\ events' = events
              /\ jobs' = jobs
              /\ pc' = "select"
        /\ \A s \in DOMAIN jobs : jobs[s].st = "aborted" => SentBy(s) = {} ]_vars

\* an Error for one of two running downloads: its job is aborted, FileDownloadFailed
\* is the last event, the other download goes on
C13_Witness ==
    /\ role = "server" /\ LoopAlive
    /\ \E s, o \in DOMAIN jobs :
          /\ jobs[s].st = "aborted" /\ tasks[jobs[s].f] = 0
          /\ jobs[o].st = "run" /\ tasks[jobs[o].f] = o /\ jobs[o].started
          /\ events[Len(events)] = EvErr("Failed", jobs[s].f, s, FALSE, "BadTransferState")

\* the transfer events of one kind after the step
TransferEvs(k) == {i \in DOMAIN events' : events'[i].k = k}

\* C14 as stated: when the loop ends on a frame that cannot be decoded or on a failed
\* socket send, every sub-task of the transfer is aborted (none is left to run), exactly
\* one TransferFailed was sent and no TransferCanceled.
C14_FramingErrorFailsTransfer ==
    [][ /\ (pc = "recv" /\ cur.k = "Bad" /\ pc' # pc) => pc' = "failed"
        /\ (LoopAlive /\ pc' = "failed") =>
              /\ \A s \in DOMAIN jobs : IsFinished(jobs'[s])
              /\ Len(events') = Len(events) + 1
              /\ events'[Len(events')].k = "TransferFailed"
              /\ Cardinality(TransferEvs("TransferFailed")) = 1
              /\ TransferEvs("TransferCanceled") = {} ]_vars

\* C14 for the sub-tasks of the loop's task map: when the loop ends on a frame that
\* cannot be decoded or on a failed socket send, the map is emptied and every job that
\* was in it is aborted or had ended, exactly one TransferFailed was sent and no
\* TransferCanceled.
C14_FramingErrorFailsMappedTasks ==
    [][ /\ (pc = "recv" /\ cur.k = "Bad" /\ pc' # pc) => pc' = "failed"
        /\ (LoopAlive /\ pc' = "failed") =>
              /\ tasks' = [f \in Files |-> 0]
              /\ \A f \in Files : HasTask(f) => IsFinished(jobs'[tasks[f]])
              /\ Len(events') = Len(events) + 1
              /\ events'[Len(events')].k = "TransferFailed"
              /\ Cardinality(TransferEvs("TransferFailed")) = 1
              /\ TransferEvs("TransferCanceled") = {} ]_vars

\* the loop ended on a frame that could not be decoded while a sub-task was running:
\* the job is aborted and TransferFailed{BadTransferState} is the last event
C14_Witness ==
    /\ pc = "failed"
    /\ events[Len(events)] = EvErr("TransferFailed", NoFile, 0, FALSE, "BadTransferState")
    /\ \E s \in DOMAIN jobs : jobs[s].st = "aborted"
    /\ \E i \in DOMAIN events : events[i].k = "Started"

\* the loop takes a Cancel request for a file that has no running sub-task, the job
\* has ended or none was ever started, and its socket send does not fail
CancelEndedStep ==
    /\ pc = "select" /\ pc' = "select" /\ api_q # <<>> /\ api_q' = Tail(api_q)
    /\ Head(api_q).op = "Cancel"
    /\ ~Running(Head(api_q).f)

\* C15 as stated: a cancel of a file whose sub-task has ended or was never started is
\* a no-op: no event is sent, no sub-task and no entry of the task map changes, and no
\* message goes to the peer.
C15_CancelEndedIsNoOp ==
    [][ CancelEndedStep =>
           /\ events' = events
           /\ jobs' = jobs
           /\ tasks' = tasks
           /\ wire' = wire ]_vars

\* C15 as the code has it: a cancel of a file whose sub-task has ended or was never
\* started sends no event and changes no job, but Cancel{file} goes to the peer and an
\* ended task leaves the task map.
C15_CancelEndedSendsCancel ==
    [][ CancelEndedStep =>
           /\ events' = events
           /\ jobs' = jobs
           /\ tasks' = [tasks EXCEPT ![Head(api_q).f] = 0]
           /\ wire' = Append(wire, Msg("Cancel", Head(api_q).f)) ]_vars

\* a cancel of a file that was never started has been handled: Cancel is on the wire
C15_Witness ==
    /\ ret.op = "cancel" /\ ret.res = "Ok" /\ api_q = <<>> /\ LoopAlive
    /\ jobs = <<>>
    /\ wire = <<Msg("Cancel", ret.f)>>
    /\ Len(events) = 1

Dispatched == SubSeq(events, 1, Len(events) - Len(bus))

RECURSIVE Journaled(_, _)
\* the state events that the events es leave in the journal row of file f, in the
\* order of es
Journaled(es, f) ==
    IF es = <<>> THEN <<>>
    ELSE LET e == Head(es)
             s == IF e.k = "Queued" THEN <<St("Pending", FALSE)>>
                  ELSE IF e.f = f /\ e.k \in FileKinds \ {"Progress"}
                       THEN <<St(JournalKind(e.k), e.by_peer)>>
                       ELSE <<>>
         IN s \o Journaled(Tail(es), f)

RECURSIVE JournaledTransfer(_)
\* the state events that the events es leave in the row of the transfer
JournaledTransfer(es) ==
    IF es = <<>> THEN <<>>
    ELSE LET e == Head(es)
             s == IF e.k = "TransferCanceled" THEN <<St("Cancel", e.by_peer)>>
                  ELSE IF e.k = "TransferFailed" THEN <<St("Failed", e.by_peer)>>
                  ELSE <<>>
         IN s \o JournaledTransfer(Tail(es))

RejectStep ==
    /\ pc = "select" /\ pc' = "select" /\ api_q # <<>> /\ api_q' = Tail(api_q)
    /\ Head(api_q).op = "Reject"

\* the step sends Rejected for file f with the given by_peer as its last event
SendsRejected(f, by_peer) ==
    /\ Len(events') > Len(events)
    /\ events'[Len(events')] = Ev("Rejected", f, 0, by_peer)

\* C22 as stated, for the rejecting side: a local reject sends Reject{file} to the
\* peer and emits Rejected with by_peer = false.
C22_RejectReachesPeer ==
    [][ RejectStep =>
           /\ wire' = Append(wire, Msg("Reject", Head(api_q).f))
           /\ SendsRejected(Head(api_q).f, FALSE) ]_vars

\* C22 as the code has it: a local reject sends Cancel{file} to the peer and emits
\* Rejected with by_peer = false; no message of the peer makes a loop emit Rejected, so
\* Rejected never has by_peer = true.
C22_RejectSendsCancel ==
    [][ /\ RejectStep =>
             /\ wire' = Append(wire, Msg("Cancel", Head(api_q).f))
             /\ SendsRejected(Head(api_q).f, FALSE)
        /\ \A i \in DOMAIN events' \ DOMAIN events :
              events'[i].k = "Rejected" => ~events'[i].by_peer /\ RejectStep ]_vars

\* a reject of the host has been handled by the loop: Cancel is on the wire and
\* Rejected with by_peer = false is the last event
C22_Witness ==
    /\ ret.op = "reject" /\ ret.res = "Ok" /\ api_q = <<>> /\ LoopAlive
    /\ wire # <<>> /\ wire[Len(wire)] = Msg("Cancel", ret.f)
    /\ events[Len(events)] = Ev("Rejected", ret.f, 0, FALSE)

\* C23: Service::download returns an error and sends no Download request whenever f is
\* rejected, the transfer is not registered or is outgoing, f is not a file of the
\* transfer, the mapped absolute path has a parent-directory component, or the
\* destination directory or one of its ancestors is a symlink; a Download request is
\* sent only when every check passes.
C23_DownloadChecks ==
    [][ \A f \in Files \cup {UnknownFile}, dir \in Dirs :
           Service_download(f, dir) =>
              LET path == dir \o <<f>>
                  fails == \/ f \in rejections
                           \/ ~registered
                           \/ role = "client"
                           \/ f \notin Files
                           \/ \E i \in DOMAIN path : path[i] = ".."
                           \/ \E n \in 0..(Len(path) - 1) : SubSeq(path, 1, n) \in Symlinks
              IN /\ fails => ret'.res # "Ok" /\ ~ret'.sent /\ api_q' = api_q
                 /\ api_q' # api_q =>
                       /\ ~fails
                       /\ ret'.res = "Ok"
                       /\ api_q' = Append(api_q, Req("Download", f)) ]_vars

\* a download of the receiver into a bad location returned BadPath while the transfer
\* was registered and the file not rejected, and nothing was sent to the loop
C23_Witness ==
    /\ role = "server"
    /\ ret.op = "download" /\ ret.res = "BadPath" /\ ret.reg /\ ~ret.pre /\ ~ret.sent
    /\ ncalls = 1
    /\ api_q = <<>>

\* a Rejected event for file f has been emitted
RejectedEmitted(f) == \E i \in EvIdx : events[i].k = "Rejected" /\ events[i].f = f

\* the Rejected state of file f is in the journal
RejectedJournaled(f) ==
    \E i \in DOMAIN JournalRow(f).states : JournalRow(f).states[i].k = "Reject"

\* the protocol loop has returned: nothing emits a Rejected event from here on
LoopOver == pc \in {"done", "failed"}

\* C27: the rejection flag agrees with the event stream: a flag set by Service::reject
\* is followed by a Rejected event for the file, also when the wire send fails or the
\* loop has already ended.  Only the loop emits Rejected, so once the loop is over the
\* event of every flag ever set must be there, and once the host has drained the bus it
\* must be in the journal.
C27_FlagHasRejectedEvent ==
    LoopOver =>
        \A f \in ever_rejected :
            /\ RejectedEmitted(f)
            /\ (bus = <<>> => RejectedJournaled(f))

\* what the code keeps: a Rejected event is only ever emitted for a file whose flag
\* Service::reject has set, and only by a loop that could send the message to the peer
C27_RejectedEventHasFlag ==
    /\ \A i \in EvIdx : events[i].k = "Rejected" => events[i].f \in ever_rejected
    /\ [][\A f \in Files : (~RejectedEmitted(f) /\ RejectedEmitted(f)') => RejectStep]_vars

\* reject was called after the loop had failed: the flag is set, the call returned
\* BadTransferState and no Rejected event exists
C27_Witness ==
    /\ pc = "failed" /\ ret.op = "reject" /\ ret.res = "BadTransferState"
    /\ ret.f \in ever_rejected /\ ~RejectedEmitted(ret.f)
    /\ bus = <<>>

\* C31 as stated: a local reject of f sends Cancel{f} to the peer and emits Rejected with
\* by_peer = false; if a sub-task of f is running it is aborted and Cancelled with
\* by_peer = false is emitted before the Rejected event.
C31_RejectCancelsRunning ==
    [][RejectStep =>
        LET f == Head(api_q).f IN
        /\ wire' = Append(wire, Msg("Cancel", f))
        /\ IF Running(f)
           THEN /\ jobs'[tasks[f]].st = "aborted"
                /\ events' = events \o <<Ev("Cancelled", f, tasks[f], FALSE),
                                         Ev("Rejected", f, 0, FALSE)>>
           ELSE /\ jobs' = jobs
                /\ events' = events \o <<Ev("Rejected", f, 0, FALSE)>>]_vars

\* C31 as the code has it: the running sub-task is aborted in any case, and Cancelled
\* precedes Rejected exactly when that sub-task had emitted its Started event.
C31_RejectCancelsStarted ==
    [][RejectStep =>
        LET f == Head(api_q).f IN
        /\ wire' = Append(wire, Msg("Cancel", f))
        /\ tasks'[f] = 0
        /\ IF Running(f)
           THEN /\ jobs'[tasks[f]].st = "aborted"
                /\ events' = events \o
                      (IF TaskOf(f).started
                       THEN <<Ev("Cancelled", f, tasks[f], FALSE)>> ELSE <<>>)
                      \o <<Ev("Rejected", f, 0, FALSE)>>
           ELSE /\ jobs' = jobs
                /\ events' = events \o <<Ev("Rejected", f, 0, FALSE)>>]_vars

\* the sub-task of f1 had started and was rejected: it is aborted, and Cancelled and
\* Rejected are the last two events
C31_Witness ==
    /\ Len(events) >= 3
    /\ events[Len(events)] = Ev("Rejected", "f1", 0, FALSE)
    /\ events[Len(events) - 1].k = "Cancelled" /\ events[Len(events) - 1].f = "f1"
    /\ ~events[Len(events) - 1].by_peer
    /\ jobs[events[Len(events) - 1].sid].st = "aborted"
    /\ wire[Len(wire)] = Msg("Cancel", "f1")

\* the sub-tasks of file f that have not finished, in the map or not
RunningJobs(f) == {s \in DOMAIN jobs : jobs[s].f = f /\ ~IsFinished(jobs[s])}

\* the loop handles a Download request (receiver) or a Start message (sender) for f
StartRequestStep(f) ==
    \/ /\ pc = "select" /\ api_q # <<>> /\ Head(api_q) = Req("Download", f)
       /\ api_q' = Tail(api_q)
    \/ /\ pc = "recv" /\ cur = Msg("Start", f) /\ pc' = "select"

\* C34: every file has at most one running sub-task at any time; a Download request or a
\* Start message for a file whose sub-task is running starts no second one and leaves
\* the running one untouched; a sub-task is started only when none of the file is
\* running.
C34_OneRunningSubTask ==
    /\ \A f \in Files : Cardinality(RunningJobs(f)) <= 1
    /\ [][\A f \in Files :
            /\ (StartRequestStep(f) /\ RunningJobs(f) # {}) => jobs' = jobs
            /\ Len(jobs') > Len(jobs) =>
                  RunningJobs(jobs'[Len(jobs')].f) = {}]_vars

\* what the loops keep: at most one running sub-task of a file in the task map, and on
\* the receiver, whose handlers abort every job they take out of the map, at most one
\* at all; a request for a file whose mapped sub-task is running changes no sub-task
C34_OneMappedSubTask ==
    /\ role = "server" => \A f \in Files : Cardinality(RunningJobs(f)) <= 1
    /\ \A s \in DOMAIN jobs :
          (~IsFinished(jobs[s]) /\ role = "server") => tasks[jobs[s].f] = s
    /\ [][\A f \in Files : (StartRequestStep(f) /\ Running(f)) => jobs' = jobs]_vars

\* the sender has two running upload jobs of f1: the one on_done took out of the map
\* and the one the next Start spawned
C34_Witness ==
    /\ role = "client"
    /\ Cardinality(RunningJobs("f1")) = 2
    /\ \E s \in RunningJobs("f1") : tasks["f1"] # s
    /\ \E s \in RunningJobs("f1") : tasks["f1"] = s

\* the event at i is Started and a terminal per-file event of its file follows it: the
\* Success, Failed or Cancelled of its sub-task, or a Rejected of the file
TerminalFollows(i) ==
    \E j \in EvIdx :
        /\ j > i
        /\ events[j].f = events[i].f
        /\ \/ events[j].k \in TerminalKinds /\ events[j].sid = events[i].sid
           \/ events[j].k = "Rejected"

\* the loop has returned and no sub-task is left to run: no event can follow
AllOver == LoopOver /\ \A s \in DOMAIN jobs : IsFinished(jobs[s])

\* C36: every file for which Started was emitted eventually gets a terminal per-file
\* event (Success, Failed, Cancelled or Rejected), also when the transfer ends while the
\* sub-task is running.  Once the loop has returned and every sub-task has ended, the
\* terminal event of every Started must be there.
C36_StartedGetsTerminal ==
    AllOver => \A i \in EvIdx : events[i].k = "Started" => TerminalFollows(i)

\* what the code keeps: while the loop runs, the event gate of a sub-task that has sent
\* Started is closed only together with a terminal event of that sub-task; at the end
\* of the loop on_stop closes the gates of the mapped sub-tasks with no event
C36_SilentOnlyAtLoopEnd ==
    [][\A s \in DOMAIN jobs :
          (jobs[s].started /\ ~jobs'[s].started) =>
              \/ /\ Len(events') > Len(events)
                 /\ \E j \in DOMAIN events' \ DOMAIN events :
                       events'[j].sid = s /\ events'[j].k \in TerminalKinds
              \/ LoopAlive /\ ~LoopAlive']_vars

\* the receiver's download of f1 had started when the peer closed the transfer: the
\* job is aborted, TransferCanceled is the last event and f1 has no terminal event
C36_Witness ==
    /\ role = "server" /\ AllOver
    /\ events[Len(events)] = TransferEv("TransferCanceled", TRUE)
    /\ \E i \in EvIdx :
          /\ events[i].k = "Started" /\ events[i].f = "f1"
          /\ jobs[events[i].sid].st = "aborted"
          /\ ~TerminalFollows(i)

(***************************************************************************)
(* The Storage API on its own: transfers T1 and T2 are inserted, state     *)
(* events are appended to file rows, and file rows are removed.            *)
(***************************************************************************)
\* state events of one file row
MaxRowStates == 2

HasReject(tbl, t, f) ==
    /\ tbl[<<t, f>>].present
    /\ \E i \in DOMAIN tbl[<<t, f>>].states : tbl[<<t, f>>].states[i].k = "Reject"

\* the engine does not run while the Storage API is exercised
EngineIdle ==
    /\ role = "client"
    /\ pc = "idle"
    /\ cur = NoFrame
    /\ registered = FALSE
    /\ rejections = {}
    /\ api_q = <<>>
    /\ jobs = <<>>
    /\ tasks = [f \in Files |-> 0]
    /\ checksums = {}
    /\ events = <<>>
    /\ bus = <<>>
    /\ wire = <<>>
    /\ ret = [op |-> "none", f |-> NoFile, res |-> "none", sent |-> FALSE,
              pre |-> FALSE, reg |-> FALSE]
    /\ ncalls = 0
    /\ nframes = 0
    /\ nprog = 0
    /\ ever_rejected = {}

InitStorage ==
    /\ EngineIdle
    /\ NegIdle
    /\ DlIdle
    /\ IdleIdle
    /\ ExtIdle
    /\ st_xfers = [t \in Transfers |-> NoRow]
    /\ st_out = [p \in Transfers \X Files |-> NoRow]
    /\ st_in = [p \in Transfers \X Files |-> NoRow]
    /\ st_ret = StRet("none", "-", NoFile, "none")
    /\ st_now = 0
    /\ st_calls = 0
    /\ st_inserted = [t \in Transfers |-> NoInfo]

\* direct Storage calls in one run
MaxStorageCalls == 4
\* ticks of the database clock in one run
MaxClock == 2
\* ticks of the database clock in one second
TicksPerSecond == 2

Peers == {"p1", "p2"}
\* TransferInfo::files: the file ids of a transfer, in the order they are inserted
FileLists == {<<"f1">>, <<"f1", "f2">>, <<"f1", "f1">>}
\* the file ids of a list
FileSet(files) == {files[i] : i \in DOMAIN files}
\* the unix timestamps the callers pass
Timestamps == {0, 1}
\* the lists of ids purge_transfers is called with
IdLists == {<<>>, <<"T1">>, <<"T2", "T1">>}
\* the state tables get_outgoing_paths and get_incoming_paths read, in the order read
PathKinds == <<"Pending", "Started", "Cancel", "Failed", "Completed", "Reject">>
\* the state tables transfers_since reads for a transfer, in the order read
TransferKinds == <<"Active", "Cancel", "Failed">>

\* a row of the transfers table
XferRow(peer, outgoing) ==
    [present |-> TRUE, states |-> <<>>, peer |-> peer, is_outgoing |-> outgoing,
     at |-> st_now]

\* the three tables as one value
Db(x, o, i) == [x |-> x, o |-> o, i |-> i]
DbNow == Db(st_xfers, st_out, st_in)

\* the database becomes db
Commit(db) ==
    /\ st_xfers' = db.x
    /\ st_out' = db.o
    /\ st_in' = db.i

\* a Storage call was made
Called ==
    /\ st_calls < MaxStorageCalls
    /\ st_calls' = st_calls + 1

StRet2(op, arg, res) == [op |-> op, t |-> "-", f |-> NoFile, res |-> res, arg |-> arg]

\* insert_incoming_path (ON CONFLICT DO NOTHING) and insert_outgoing_path for the
\* first n files of the list
InsertPaths(tbl, t, files, n) ==
    [p \in Transfers \X Files |->
        IF p[1] = t /\ (\E j \in 1..n : files[j] = p[2]) /\ ~tbl[p].present
        THEN EmptyRow
        ELSE tbl[p]]

\* the statements of insert_transfer up to and without the file insert that fails
\* (fail = 0: none fails)
InsertTransferRows(db, t, peer, outgoing, files, fail) ==
    LET n == IF fail = 0 THEN Len(files) ELSE fail - 1
    IN Db([db.x EXCEPT ![t] = XferRow(peer, outgoing)],
          IF outgoing THEN InsertPaths(db.o, t, files, n) ELSE db.o,
          IF outgoing THEN db.i ELSE InsertPaths(db.i, t, files, n))

\* the TransferInfo a transfer was inserted with
Info(peer, outgoing, files) ==
    [known |-> TRUE, purged |-> FALSE, peer |-> peer, is_outgoing |-> outgoing,
     files |-> FileSet(files), removed |-> {}]

\* the inputs insert_transfer is called with: the host builds an outgoing transfer
\* from distinct file ids; fail is the index of the statement that fails
InsertTransferInput(outgoing, files, fail) ==
    /\ fail <= Len(files)
    /\ outgoing => Cardinality(FileSet(files)) = Len(files)

\* a variant of insert_transfer whose statements are committed one by one
St_insert_transfer_autocommit(t, peer, outgoing, files, fail) ==
    /\ Called
    /\ InsertTransferInput(outgoing, files, fail)
    /\ IF st_xfers[t].present
       THEN /\ UNCHANGED <<st_xfers, st_out, st_in, st_inserted>>
            /\ st_ret' = StRet("insert_transfer", t, NoFile, "Err")
       ELSE /\ Commit(InsertTransferRows(DbNow, t, peer, outgoing, files, fail))
            /\ st_inserted' = [st_inserted EXCEPT ![t] =
                                 IF fail = 0 THEN Info(peer, outgoing, files) ELSE @]
            /\ st_ret' = StRet("insert_transfer", t, NoFile, IF fail = 0 THEN "Ok" ELSE "Err")
    /\ UNCHANGED <<st_now, engineVars, auxVars>>

\* Storage::insert_transfer: the transfer row and one row per file, in one transaction;
\* a second insert of the same id fails on the primary key, a failing statement
\* returns before the commit and the dropped transaction rolls back
St_insert_transfer(t, peer, outgoing, files, fail) ==
    /\ Called
    /\ InsertTransferInput(outgoing, files, fail)
    /\ IF st_xfers[t].present \/ fail # 0
       THEN /\ UNCHANGED <<st_xfers, st_out, st_in, st_inserted>>
            /\ st_ret' = StRet("insert_transfer", t, NoFile, "Err")
       ELSE /\ Commit(InsertTransferRows(DbNow, t, peer, outgoing, files, 0))
            /\ st_inserted' = [st_inserted EXCEPT ![t] = Info(peer, outgoing, files)]
            /\ st_ret' = StRet("insert_transfer", t, NoFile, "Ok")
    /\ UNCHANGED <<st_now, engineVars, auxVars>>

\* Storage::insert_outgoing_path_*_state and insert_incoming_path_*_state: without a
\* file row the sub-select yields NULL, the not-null column rejects the row and
\* execute(..)? returns the error
St_insert_path_state(t, f, outgoing, k) ==
    LET tbl == IF outgoing THEN st_out ELSE st_in IN
    /\ Called
    /\ Len(tbl[<<t, f>>].states) < MaxRowStates
    /\ st_out' = IF outgoing THEN InsertPathState(st_out, t, f, St(k, FALSE)) ELSE st_out
    /\ st_in' = IF outgoing THEN st_in ELSE InsertPathState(st_in, t, f, St(k, FALSE))
    /\ st_ret' = [op |-> "insert_state", t |-> t, f |-> f, arg |-> outgoing,
                   res |-> IF tbl[<<t, f>>].present THEN "Ok" ELSE "Err"]
    /\ UNCHANGED <<st_xfers, st_now, st_inserted, engineVars, auxVars>>

\* Storage::insert_transfer_cancel_state and insert_transfer_failed_state: the row
\* refers to the transfer by a foreign key
St_insert_transfer_state(t, k) ==
    /\ Called
    /\ Len(st_xfers[t].states) < MaxRowStates
    /\ st_xfers' = InsertTransferState(st_xfers, t, St(k, FALSE))
    /\ st_ret' = StRet("insert_transfer_state", t, NoFile,
                       IF st_xfers[t].present THEN "Ok" ELSE "Err")
    /\ UNCHANGED <<st_out, st_in, st_now, st_inserted, engineVars, auxVars>>

\* a variant of the DELETE without the reject-state condition
DeleteAny(tbl, t, f) ==
    IF tbl[<<t, f>>].present THEN [tbl EXCEPT ![<<t, f>>] = NoRow] ELSE tbl

\* the DELETE of remove_transfer_file on one paths table
DeleteRejected(tbl, t, f) ==
    IF HasReject(tbl, t, f) THEN [tbl EXCEPT ![<<t, f>>] = NoRow] ELSE tbl

\* Storage::remove_transfer_file
St_remove_transfer_file(t, f) ==
    LET count == (IF DeleteRejected(st_out, t, f) # st_out THEN 1 ELSE 0)
                 + (IF DeleteRejected(st_in, t, f) # st_in THEN 1 ELSE 0) IN
    /\ Called
    /\ st_out' = DeleteRejected(st_out, t, f)
    /\ st_in' = DeleteRejected(st_in, t, f)
    /\ st_ret' = StRet("remove", t, f, IF count = 0 THEN "None" ELSE "Some")
    /\ st_inserted' = IF count = 0 THEN st_inserted
                      ELSE [st_inserted EXCEPT ![t].removed = @ \cup {f}]
    /\ UNCHANGED <<st_xfers, st_now, engineVars, auxVars>>

\* datetime(?1, 'unixepoch'): a unix timestamp in the unit of created_at
datetime(ts) == ts * TicksPerSecond

\* DELETE FROM transfers WHERE ..: the rows that refer to the transfer go with it
DeleteTransfers(db, sel) ==
    Db([t \in Transfers |-> IF t \in sel THEN NoRow ELSE db.x[t]],
       [p \in Transfers \X Files |-> IF p[1] \in sel THEN NoRow ELSE db.o[p]],
       [p \in Transfers \X Files |-> IF p[1] \in sel THEN NoRow ELSE db.i[p]])

\* Storage::purge_transfer
purge_transfer(db, id) == DeleteTransfers(db, {id})

RECURSIVE purge_loop(_, _)
\* the loop of Storage::purge_transfers
purge_loop(db, ids) ==
    IF ids = <<>> THEN db ELSE purge_loop(purge_transfer(db, Head(ids)), Tail(ids))

\* the history of a purged transfer is forgotten
Forget(sel) ==
    [t \in Transfers |-> IF t \in sel /\ st_inserted[t].known THEN Purged ELSE st_inserted[t]]

\* Storage::purge_transfers
St_purge_transfers(ids) ==
    /\ Called
    /\ Commit(purge_loop(DbNow, ids))
    /\ st_inserted' = Forget(FileSet(ids))
    /\ st_ret' = StRet2("purge_transfers", ids, "Ok")
    /\ UNCHANGED <<st_now, engineVars, auxVars>>

\* a variant of the WHERE clause of purge_transfers_until that takes the bound itself
CreatedUntil(at, ts) == at <= datetime(ts)

\* WHERE created_at < datetime(?1, 'unixepoch')
CreatedBefore(at, ts) == at < datetime(ts)

\* the transfers a purge_transfers_until(ts) deletes
Until(x, ts) == {t \in Transfers : x[t].present /\ CreatedBefore(x[t].at, ts)}

\* Storage::purge_transfers_until
St_purge_transfers_until(ts) ==
    /\ Called
    /\ Commit(DeleteTransfers(DbNow, Until(st_xfers, ts)))
    /\ st_inserted' = Forget(Until(st_xfers, ts))
    /\ st_ret' = StRet2("purge_transfers_until", ts, "Ok")
    /\ UNCHANGED <<st_now, engineVars, auxVars>>

RECURSIVE ByKind(_, _)
\* states.extend(..) once per state table: the events of a row, table after table
ByKind(states, kinds) ==
    IF kinds = <<>> THEN <<>>
    ELSE SelectSeq(states, LAMBDA e : e.k = Head(kinds)) \o ByKind(states, Tail(kinds))

\* a variant of the sort that leaves the events in the order read
sort_by_none(s) == s

RECURSIVE sort_by(_)
\* states.sort_by(|a, b| a.created_at.cmp(&b.created_at)): a stable sort
sort_by(s) ==
    IF s = <<>> THEN <<>>
    ELSE LET m == CHOOSE i \in DOMAIN s :
                    /\ \A j \in DOMAIN s : s[i].at <= s[j].at
                    /\ \A j \in 1..(i - 1) : s[j].at > s[i].at
         IN <<s[m]>> \o sort_by(SubSeq(s, 1, m - 1) \o SubSeq(s, m + 1, Len(s)))

\* get_outgoing_paths and get_incoming_paths: the file rows of a transfer, each with
\* its events
get_paths(tbl, t) ==
    {[file_id |-> f, states |-> sort_by(ByKind(tbl[<<t, f>>].states, PathKinds))] :
        f \in {g \in Files : tbl[<<t, g>>].present}}

\* Storage::transfers_since on the tables x, o, i
transfers_since(x, o, i, ts) ==
    {[id |-> t, peer_id |-> x[t].peer, is_outgoing |-> x[t].is_outgoing,
      created_at |-> x[t].at,
      paths |-> get_paths(IF x[t].is_outgoing THEN o ELSE i, t),
      states |-> sort_by(ByKind(x[t].states, TransferKinds))] :
        t \in {u \in Transfers : x[u].present /\ x[u].at >= datetime(ts)}}

\* Storage::transfers_since
St_transfers_since(ts) ==
    /\ Called
    /\ st_ret' = StRet2("transfers_since", ts, transfers_since(st_xfers, st_out, st_in, ts))
    /\ UNCHANGED <<st_xfers, st_out, st_in, st_now, st_inserted, engineVars, auxVars>>

\* the database clock advances
St_tick ==
    /\ st_now < MaxClock
    /\ st_now' = st_now + 1
    /\ UNCHANGED <<st_xfers, st_out, st_in, st_ret, st_calls, st_inserted, engineVars,
                   auxVars>>

NextStorage ==
    \/ \E t \in Transfers, peer \in Peers, outgoing \in BOOLEAN, files \in FileLists,
          fail \in 0..2 : St_insert_transfer(t, peer, outgoing, files, fail)
    \/ \E t \in Transfers, f \in Files, outgoing \in BOOLEAN, k \in {"Started", "Reject"} :
          St_insert_path_state(t, f, outgoing, k)
    \/ \E t \in Transfers, k \in {"Cancel", "Failed"} : St_insert_transfer_state(t, k)
    \/ \E t \in Transfers, f \in Files : St_remove_transfer_file(t, f)
    \/ \E ids \in IdLists : St_purge_transfers(ids)
    \/ \E ts \in Timestamps : St_purge_transfers_until(ts)
    \/ \E ts \in Timestamps : St_transfers_since(ts)
    \/ St_tick

SpecStorage == InitStorage /\ [][NextStorage]_vars

\* C5: remove_transfer_file(t, f) returns Some exactly when a Rejected state event
\* exists for (t, f), and then deletes exactly that file row; otherwise it returns None
\* and leaves every row as it was.
C5_RemoveIffRejected ==
    [][ (st_ret'.op = "remove" /\ st_calls' # st_calls) =>
           LET t == st_ret'.t
               f == st_ret'.f
               had == HasReject(st_out, t, f) \/ HasReject(st_in, t, f)
           IN /\ (st_ret'.res = "Some") <=> had
              /\ (st_ret'.res = "None") <=> ~had
              /\ st_xfers' = st_xfers
              /\ \A p \in Transfers \X Files :
                    IF had /\ p = <<t, f>>
                    THEN ~st_out'[p].present /\ ~st_in'[p].present
                    ELSE st_out'[p] = st_out[p] /\ st_in'[p] = st_in[p] ]_vars

\* remove_transfer_file removed a rejected file row and kept the transfer's other row
C5_Witness ==
    /\ st_ret.op = "remove" /\ st_ret.res = "Some"
    /\ ~st_out[<<st_ret.t, st_ret.f>>].present
    /\ \E g \in Files \ {st_ret.f} :
          st_out[<<st_ret.t, g>>].present /\ st_out[<<st_ret.t, g>>].states # <<>>

\* a direct call of Storage::insert_transfer has just returned
InsertTransferStep == st_ret'.op = "insert_transfer" /\ st_calls' # st_calls

\* the rows of every transfer but t are as they were
OthersUnchanged(t) ==
    /\ \A u \in Transfers \ {t} : st_xfers'[u] = st_xfers[u]
    /\ \A p \in Transfers \X Files :
          p[1] # t => st_out'[p] = st_out[p] /\ st_in'[p] = st_in[p]

\* after a successful insert_transfer the transfer row and a row for each of its
\* files exist
InsertedRowsExist(t) ==
    /\ st_xfers'[t].present
    /\ st_inserted'[t].known
    /\ \A f \in st_inserted'[t].files :
          (IF st_inserted'[t].is_outgoing THEN st_out' ELSE st_in')[<<t, f>>].present

\* C17 as stated: insert_transfer is atomic: after a successful call the transfer row
\* and one row for every file exist; after a failed call neither a transfer row with
\* that id nor any file row of it exists, and other transfers' rows are unchanged.
C17_FailedInsertLeavesNoRow ==
    [][ InsertTransferStep =>
           LET t == st_ret'.t IN
           /\ OthersUnchanged(t)
           /\ st_ret'.res = "Ok" => InsertedRowsExist(t)
           /\ st_ret'.res = "Err" =>
                 /\ ~st_xfers'[t].present
                 /\ \A f \in Files : ~st_out'[<<t, f>>].present /\ ~st_in'[<<t, f>>].present
      ]_vars

\* C17: insert_transfer is atomic: after a successful call the transfer row and one
\* row for every file exist; after a failed call every table is exactly as it was
\* before the call, so no row of the failed call is kept, the rows of the transfer
\* that already had the id remain, and other transfers' rows are unchanged.
C17_InsertTransferAtomic ==
    [][ InsertTransferStep =>
           LET t == st_ret'.t IN
           /\ OthersUnchanged(t)
           /\ st_ret'.res = "Ok" => InsertedRowsExist(t)
           /\ st_ret'.res = "Err" => UNCHANGED <<st_xfers, st_out, st_in>>
      ]_vars

\* an insert_transfer of a new id failed at one of its statements and left no row of
\* it, while another transfer is stored
C17_Witness ==
    /\ st_ret.op = "insert_transfer"
    /\ st_ret.res = "Err"
    /\ ~st_xfers[st_ret.t].present
    /\ \E u \in Transfers \ {st_ret.t} : st_xfers[u].present

\* a direct call of an insert_*_path_*_state operation has just returned, and the
\* paths table of its direction had no file row for its (transfer_id, file_id)
UnknownFileStep ==
    /\ st_ret'.op = "insert_state"
    /\ st_calls' # st_calls
    /\ ~(IF st_ret'.arg THEN st_out ELSE st_in)[<<st_ret'.t, st_ret'.f>>].present

\* C18 as stated: an insert_*_state operation called for a (transfer_id, file_id)
\* without a file row leaves the journal unchanged and reports no error to its caller.
C18_UnknownFileIsSilent ==
    [][ UnknownFileStep =>
           /\ UNCHANGED <<st_xfers, st_out, st_in>>
           /\ st_ret'.res = "Ok" ]_vars

\* what the code does: the journal is unchanged and the caller gets the error of the
\* rejected row
C18_UnknownFileIsAnError ==
    [][ UnknownFileStep =>
           /\ UNCHANGED <<st_xfers, st_out, st_in>>
           /\ st_ret'.res = "Err" ]_vars

\* a state insert for a file the stored transfer does not have has returned
C18_Witness ==
    /\ st_ret.op = "insert_state"
    /\ st_ret.res = "Err"
    /\ st_xfers[st_ret.t].present
    /\ ~st_out[<<st_ret.t, st_ret.f>>].present
    /\ ~st_in[<<st_ret.t, st_ret.f>>].present
    /\ \E g \in Files : st_out[<<st_ret.t, g>>].present \/ st_in[<<st_ret.t, g>>].present

\* a history is in the order of its created_at column
Ascending(h) == \A i, j \in DOMAIN h : i < j => h[i].at <= h[j].at

\* transfers_since(0) returns transfer t with the peer and direction it was inserted
\* with, the files fs, and histories in ascending order of created_at
ReturnedAs(t, fs) ==
    \E r \in transfers_since(st_xfers, st_out, st_in, 0) :
       /\ r.id = t
       /\ r.peer_id = st_inserted[t].peer
       /\ r.is_outgoing = st_inserted[t].is_outgoing
       /\ {p.file_id : p \in r.paths} = fs
       /\ Ascending(r.states)
       /\ \A p \in r.paths : Ascending(p.states)

\* C19 as stated: transfers_since(0) returns every transfer inserted and not purged
\* with the id, peer, direction and files it was inserted with, each history in
\* ascending order of created_at.
C19_ReadBackAsInserted ==
    \A t \in Transfers : st_inserted[t].known => ReturnedAs(t, st_inserted[t].files)

\* C19: transfers_since(0) returns every transfer inserted and not purged with the id,
\* peer and direction it was inserted with and with the files it was inserted with
\* less those remove_transfer_file deleted, each history (of the transfer and of each
\* file) in ascending order of created_at.
C19_ReadBackLessRemoved ==
    \A t \in Transfers :
       st_inserted[t].known =>
          ReturnedAs(t, st_inserted[t].files \ st_inserted[t].removed)

\* transfers_since(0) has returned a file history whose events were read from the
\* state tables in another order than they were created in
C19_Witness ==
    /\ st_ret.op = "transfers_since"
    /\ st_ret.arg = 0
    /\ \E r \in st_ret.res : \E p \in r.paths :
          /\ Len(p.states) = 2
          /\ p.states[1].k = "Reject" /\ p.states[2].k = "Started"
          /\ p.states[1].at < p.states[2].at
    /\ st_ret.res = transfers_since(st_xfers, st_out, st_in, 0)

\* the rows of the file table of the direction of transfer t
PathTable(t) == IF st_xfers[t].is_outgoing THEN st_out ELSE st_in

\* the place of a state table in the order get_*_paths reads the tables in
TableIndex(k) == CHOOSE i \in DOMAIN PathKinds : PathKinds[i] = k

\* C33: events that share a created_at are returned by transfers_since in the order in
\* which they were appended: the history returned for every file is the sequence of
\* its events as appended.
C33_AppendOrder ==
    \A r \in transfers_since(st_xfers, st_out, st_in, 0) :
        \A p \in r.paths : p.states = PathTable(r.id)[<<r.id, p.file_id>>].states

\* what transfers_since returns: the events in ascending created_at, and those of one
\* created_at in the order of their state tables
C33_TableOrder ==
    \A r \in transfers_since(st_xfers, st_out, st_in, 0) :
        \A p \in r.paths :
            \A i, j \in DOMAIN p.states :
                i < j =>
                    \/ p.states[i].at < p.states[j].at
                    \/ /\ p.states[i].at = p.states[j].at
                       /\ TableIndex(p.states[i].k) <= TableIndex(p.states[j].k)

\* a file was rejected and then started within one timestamp; transfers_since has
\* returned Started before Reject
C33_Witness ==
    /\ st_ret.op = "transfers_since"
    /\ st_ret.res = transfers_since(st_xfers, st_out, st_in, 0)
    /\ \E r \in st_ret.res : \E p \in r.paths :
          LET row == PathTable(r.id)[<<r.id, p.file_id>>].states IN
          /\ Len(row) = 2 /\ row[1].k = "Reject" /\ row[2].k = "Started"
          /\ row[1].at = row[2].at
          /\ p.states = <<row[2], row[1]>>

\* a direct call of purge_transfers or purge_transfers_until has just returned
PurgeStep ==
    /\ st_ret'.op \in {"purge_transfers", "purge_transfers_until"}
    /\ st_calls' # st_calls

\* the transfers the purge that has just returned was to delete: those whose id is in
\* ids, or those created before the unix timestamp ts
Selected ==
    IF st_ret'.op = "purge_transfers"
    THEN {t \in Transfers : \E n \in DOMAIN st_ret'.arg : st_ret'.arg[n] = t}
    ELSE {t \in Transfers :
            st_xfers[t].present /\ st_xfers[t].at < st_ret'.arg * TicksPerSecond}

\* C20: a purge deletes exactly the selected transfers with all their file rows and
\* state events and leaves every other transfer, its files and its histories as they
\* were; purge_transfers(ids) selects by id, purge_transfers_until(ts) selects the
\* transfers created before ts, so that transfers_since(ts) returns the same before
\* and after purge_transfers_until(ts).
C20_PurgeExactlySelected ==
    [][ PurgeStep =>
           /\ \A t \in Transfers :
                 IF t \in Selected
                 THEN /\ st_xfers'[t] = NoRow
                      /\ \A f \in Files : st_out'[<<t, f>>] = NoRow /\ st_in'[<<t, f>>] = NoRow
                 ELSE /\ st_xfers'[t] = st_xfers[t]
                      /\ \A f \in Files : /\ st_out'[<<t, f>>] = st_out[<<t, f>>]
                                          /\ st_in'[<<t, f>>] = st_in[<<t, f>>]
           /\ st_ret'.op = "purge_transfers_until" =>
                 transfers_since(st_xfers', st_out', st_in', st_ret'.arg)
                    = transfers_since(st_xfers, st_out, st_in, st_ret'.arg)
      ]_vars

\* purge_transfers_until(1) has deleted a transfer created before second 1 and kept
\* one created at second 1 together with the events of its file
C20_Witness ==
    /\ st_ret.op = "purge_transfers_until"
    /\ st_ret.arg = 1
    /\ \E t \in Transfers : st_inserted[t].purged /\ ~st_xfers[t].present
    /\ \E u \in Transfers :
          /\ st_xfers[u].present
          /\ st_xfers[u].at = datetime(1)
          /\ \E f \in Files : st_out[<<u, f>>].states # <<>> \/ st_in[<<u, f>>].states # <<>>

(***************************************************************************)
(* Connecting as the sender: ws::client::run with tcp_connect and          *)
(* establish_ws_conn, raced with Service::stop by send_request's select.   *)
(***************************************************************************)
\* the versions in the order establish_ws_conn tries them
Versions == <<"V3", "V2", "V1">>

\* an answer that is no HTTP response: any other error of client_async
IoError == 0

\* the answers to a handshake: 101 completes it, another status is Error::Http
Answers == {IoError, 101, 302, 400, 404, 499, 500}

\* StatusCode::is_client_error
is_client_error(a) == a \in 400..499

\* a variant of the match that goes on to the next version after every error
HandshakeOutcomeLenient(a) ==
    IF a = 101 THEN "break" ELSE "next"

\* the match on client_async's result
HandshakeOutcome(a) ==
    IF a = 101 THEN "break"
    ELSE IF a # IoError /\ is_client_error(a) THEN "next"
    ELSE "return_err"

\* a variant of the handler choice that gives V2 the V1 handler
HandlerOfV1Only(v) ==
    IF v = "V3" THEN "v3::HandlerInit" ELSE "v2::HandlerInit<false>"

\* the match on ver in ws::client::run
HandlerOf(v) ==
    CASE v = "V1" -> "v2::HandlerInit<false>"
      [] v = "V2" -> "v2::HandlerInit<true>"
      [] v = "V3" -> "v3::HandlerInit"

Min(a, b) == IF a < b THEN a ELSE b

InitNeg ==
    /\ role = "client"
    /\ pc = "tcp"
    /\ cur = NoFrame
    /\ registered = FALSE
    /\ rejections = {}
    /\ api_q = <<>>
    /\ jobs = <<>>
    /\ tasks = [f \in Files |-> 0]
    /\ checksums = {}
    /\ events = <<>>
    /\ bus = <<>>
    /\ wire = <<>>
    /\ ret = [op |-> "none", f |-> NoFile, res |-> "none", sent |-> FALSE,
              pre |-> FALSE, reg |-> FALSE]
    /\ ncalls = 0
    /\ nframes = 0
    /\ nprog = 0
    /\ ever_rejected = {}
    /\ st_xfers = [t \in Transfers |-> IF t = "T1" THEN EmptyRow ELSE NoRow]
    /\ st_out = [p \in Transfers \X Files |-> IF p[1] = "T1" THEN EmptyRow ELSE NoRow]
    /\ st_in = [p \in Transfers \X Files |-> NoRow]
    /\ st_ret = StRet("none", "-", NoFile, "none")
    /\ st_now = 0
    /\ st_calls = 0
    /\ st_inserted = [t \in Transfers |-> NoInfo]
    /\ max_retry_interval \in {100, 300, 1000}
    /\ req_timeout \in {500, 2000}
    /\ sleep_time = 200
    /\ elapsed = 0
    /\ nretry = 0
    /\ tried = <<>>
    /\ ver = "none"
    /\ handler = "none"
    /\ DlIdle
    /\ IdleIdle
    /\ ExtIdle

NegUnchanged ==
    UNCHANGED <<role, cur, rejections, api_q, jobs, tasks, checksums, wire, ret, ncalls,
                nframes, nprog, ever_rejected, storageVars, max_retry_interval, req_timeout,
                dlVars, idleVars, extVars>>

\* ws::client::run when establish_ws_conn fails: TransferFailed and return
NegFailed ==
    /\ Emit(<<TransferEv("TransferFailed", FALSE)>>)
    /\ pc' = "neg_failed"

\* tcp_connect: TcpStream::connect succeeds
NegTcpConnected ==
    /\ pc = "tcp"
    /\ pc' = "ws"
    /\ NegUnchanged
    /\ UNCHANGED <<registered, events, bus, sleep_time, elapsed, nretry, tried, ver, handler>>

\* tcp_connect: TcpStream::connect fails, the task sleeps and doubles the sleep up to
\* the limit; the timeout around tcp_connect ends it when it falls within the sleep
NegTcpRetry ==
    /\ pc = "tcp"
    /\ nretry' = nretry + 1
    /\ IF elapsed + sleep_time >= req_timeout
       THEN /\ NegFailed
            /\ elapsed' = req_timeout
            /\ UNCHANGED sleep_time
       ELSE /\ elapsed' = elapsed + sleep_time
            /\ sleep_time' = Min(max_retry_interval, sleep_time * 2)
            /\ UNCHANGED <<pc, events, bus>>
    /\ NegUnchanged
    /\ UNCHANGED <<registered, tried, ver, handler>>

\* establish_ws_conn: one handshake for the next version of the list
NegHandshake(a) ==
    /\ pc = "ws"
    /\ LET v == Versions[Len(tried) + 1] IN
       /\ tried' = Append(tried, [ver |-> v, ans |-> a])
       /\ IF HandshakeOutcome(a) = "break"
          THEN /\ ver' = v
               /\ pc' = "connected"
               /\ UNCHANGED <<events, bus>>
          ELSE IF HandshakeOutcome(a) = "next" /\ Len(tried) + 1 < Len(Versions)
          THEN UNCHANGED <<ver, pc, events, bus>>
          ELSE /\ NegFailed
               /\ UNCHANGED ver
    /\ NegUnchanged
    /\ UNCHANGED <<registered, sleep_time, elapsed, nretry, handler>>

\* ws::client::run gives RunContext::run the handler of the version; RunContext::start
\* registers the transfer and sends RequestQueued
NegRunStart ==
    /\ pc = "connected"
    /\ handler' = HandlerOf(ver)
    /\ registered' = TRUE
    /\ Emit(<<TransferEv("Queued", FALSE)>>)
    /\ pc' = "select"
    /\ NegUnchanged
    /\ UNCHANGED <<sleep_time, elapsed, nretry, tried, ver>>

\* RunContext::run when the handler's start fails
NegRunStartFail ==
    /\ pc = "connected"
    /\ handler' = HandlerOf(ver)
    /\ Emit(<<TransferEv("TransferFailed", FALSE)>>)
    /\ pc' = "failed"
    /\ NegUnchanged
    /\ UNCHANGED <<registered, sleep_time, elapsed, nretry, tried, ver>>

\* RunContext::run: the loop ends on an error; on_stop, finalize_failure, and the guard
\* of RunContext::start takes the transfer out of the TransferManager
NegLoopFail ==
    /\ pc = "select"
    /\ Emit(<<TransferEv("TransferFailed", FALSE)>>)
    /\ registered' = FALSE
    /\ pc' = "failed"
    /\ NegUnchanged
    /\ UNCHANGED <<sleep_time, elapsed, nretry, tried, ver, handler>>

\* RunContext::run: the loop ends after on_close (cancel_all, or Close of the peer),
\* which sends TransferCanceled; the job goes on to drain the socket
NegLoopClose(by_peer) ==
    /\ pc = "select"
    /\ Emit(<<TransferEv("TransferCanceled", by_peer)>>)
    /\ pc' = "drain"
    /\ NegUnchanged
    /\ UNCHANGED <<registered, sleep_time, elapsed, nretry, tried, ver, handler>>

\* RunContext::run: the peer has closed the socket, the drain ends and the job returns
NegDrained ==
    /\ pc = "drain"
    /\ registered' = FALSE
    /\ pc' = "done"
    /\ NegUnchanged
    /\ UNCHANGED <<events, bus, sleep_time, elapsed, nretry, tried, ver, handler>>

\* Service::stop while the client job has not returned: the select of send_request
\* drops the job where it is, connecting, in its loop or draining its socket, and the
\* stop job sends TransferFailed(Canceled)
NegStop ==
    /\ pc \in {"tcp", "ws", "connected", "select", "drain"}
    /\ Emit(<<TransferEv("TransferFailed", TRUE)>>)
    /\ registered' = FALSE
    /\ pc' = "stopped"
    /\ NegUnchanged
    /\ UNCHANGED <<sleep_time, elapsed, nretry, tried, ver, handler>>

NextNeg ==
    \/ NegTcpConnected
    \/ NegTcpRetry
    \/ \E a \in Answers : NegHandshake(a)
    \/ NegRunStart
    \/ NegRunStartFail
    \/ NegLoopFail
    \/ \E by_peer \in BOOLEAN : NegLoopClose(by_peer)
    \/ NegDrained
    \/ NegStop

SpecNeg == InitNeg /\ [][NextNeg]_vars

\* the transfer-level terminal events emitted so far
Terminals == {i \in DOMAIN events : events[i].k \in {"TransferCanceled", "TransferFailed"}}

\* C35: at most one transfer-level terminal event (TransferCanceled or TransferFailed)
\* is emitted for the transfer, also when Service::stop cancels the root token while
\* the client job that emitted TransferCanceled is still draining its socket.
C35_OneTerminalEvent == Cardinality(Terminals) <= 1

\* what the code keeps: a second terminal event comes only from Service::stop, as
\* TransferFailed by the stop job after the TransferCanceled of a job that was draining
C35_SecondOnlyFromStop ==
    /\ Cardinality(Terminals) <= 2
    /\ Cardinality(Terminals) = 2 =>
          /\ pc = "stopped"
          /\ events[Len(events)] = TransferEv("TransferFailed", TRUE)
          /\ events[Len(events) - 1].k = "TransferCanceled"

\* the transfer was cancelled by the host and the service stopped during the drain
C35_Witness ==
    /\ pc = "stopped" /\ ver = "V2"
    /\ Len(events) = 3
    /\ events[2] = TransferEv("TransferCanceled", FALSE)
    /\ events[3] = TransferEv("TransferFailed", TRUE)

\* C32: in tcp_connect the delay slept before the n-th retry (n >= 1) is
\* min(connection_max_retry_interval, 200 ms * 2^(n-1)), so no delay between two
\* connection attempts exceeds the configured cap.  While tcp_connect runs, sleep_time is
\* the delay of retry nretry + 1.
C32_BackoffDelay ==
    pc = "tcp" =>
        /\ sleep_time = Min(max_retry_interval, 200 * (2 ^ nretry))
        /\ sleep_time <= max_retry_interval

\* what tcp_connect computes: the first delay is 200 ms whatever the cap, the later ones
\* are capped
C32_BackoffAfterFirst ==
    pc = "tcp" =>
        sleep_time = IF nretry = 0 THEN 200
                     ELSE Min(max_retry_interval, 200 * (2 ^ nretry))

\* with a cap of 100 ms the first retry came after 200 ms
C32_Witness ==
    /\ pc = "tcp" /\ max_retry_interval = 100
    /\ nretry = 1 /\ elapsed = 200 /\ sleep_time = 100

CountEv(k) == Cardinality({i \in DOMAIN events : events[i].k = k})
Is4xx(a) == a \in {400, 404, 499}

\* C9: the versions are tried in the order V3, V2, V1, a lower one only after every
\* higher one was answered with a 4xx status; the version selected is the first one
\* not answered so, and the handler that runs is the one of the selected version.
C9_FirstNon4xxVersion ==
    /\ Len(tried) <= 3
    /\ \A i \in DOMAIN tried :
          /\ tried[i].ver = Versions[i]
          /\ i < Len(tried) => Is4xx(tried[i].ans)
    /\ ver # "none" =>
          /\ tried # <<>>
          /\ ver = tried[Len(tried)].ver
          /\ tried[Len(tried)].ans = 101
    /\ handler # "none" =>
          handler = (CASE ver = "V3" -> "v3::HandlerInit"
                       [] ver = "V2" -> "v2::HandlerInit<true>"
                       [] ver = "V1" -> "v2::HandlerInit<false>")

\* V3 was refused with a 4xx status and V2 accepted: the V2 handler runs
C9_Witness ==
    /\ Len(tried) = 2 /\ tried[1].ans = 404 /\ ver = "V2"
    /\ handler = "v2::HandlerInit<true>" /\ pc = "select"

\* C10: when negotiation ended with an error, either the last answer was not a 4xx and
\* no lower version was tried after it, or all three versions were answered 4xx (or
\* the connection timed out before any handshake); exactly one TransferFailed was
\* sent, no RequestQueued, and the transfer was not registered.
C10_NegotiationError ==
    /\ \A i \in DOMAIN tried :
          (tried[i].ans # 101 /\ ~Is4xx(tried[i].ans)) => (i = Len(tried) /\ pc = "neg_failed")
    /\ (Len(tried) = 3 /\ \A i \in DOMAIN tried : Is4xx(tried[i].ans)) => pc = "neg_failed"
    /\ pc = "neg_failed" =>
          /\ CountEv("TransferFailed") = 1
          /\ CountEv("Queued") = 0
          /\ ~registered
          /\ ver = "none" /\ handler = "none"
          /\ \/ tried = <<>>
             \/ tried[Len(tried)].ans # 101 /\ ~Is4xx(tried[Len(tried)].ans)
             \/ Len(tried) = 3 /\ \A i \in DOMAIN tried : Is4xx(tried[i].ans)
    /\ registered => CountEv("TransferFailed") = 0

\* V3 was refused with a 4xx status, V2 failed with a status that is not 4xx
C10_Witness ==
    /\ pc = "neg_failed" /\ Len(tried) = 2
    /\ tried[1].ans = 400 /\ tried[2].ans = 500

(***************************************************************************)
(* One V3+ download byte by byte: the receiver's Downloader of v4 against  *)
(* a sender that answers ReqChsum and streams the file from the offset of  *)
(* Start, over two connections with the temporary file kept between them.  *)
(***************************************************************************)
\* the largest file, in bytes
MaxSize == 2
\* the bytes of one chunk
ChunkBytes == 1

RECURSIVE SeqsUpTo(_)
\* the byte strings of length at most n
SeqsUpTo(n) ==
    IF n = 0 THEN {<<>>}
    ELSE SeqsUpTo(n - 1) \cup {Append(q, b) : q \in {x \in SeqsUpTo(n - 1) : Len(x) = n - 1},
                                                b \in {0, 1}}

RECURSIVE checksum(_)
\* file::checksum: the digest of a byte string, one digest per string
checksum(q) ==
    IF q = <<>> THEN 0
    ELSE (q[Len(q)] + 1) + 3 * checksum(SubSeq(q, 1, Len(q) - 1))

Prefix(q, n) == SubSeq(q, 1, n)

\* the sender's answer to ReqChsum{limit}: ReportChsum of the first limit bytes
ReportChsum(limit) == [limit |-> limit, checksum |-> checksum(Prefix(src, limit))]

\* a variant of the resume decision that always starts over, as the V1/V2 Downloader
InitOffsetZero(t, size) == 0

\* the reports request_csum(limit) can get: the one of an unchanged sender, or one
\* with the digest asked for under another limit (on_checksum hands a report to the
\* download task only when its limit is not the file size)
Reports(limit, size) ==
    {ReportChsum(limit)}
        \cup {[limit |-> l, checksum |-> ReportChsum(limit).checksum] :
                    l \in (0 .. size - 1) \ {limit}}

\* a variant of the resume decision that takes a temporary file shorter than the target
\* without looking at the report
InitOffsetUnverified(t, size) ==
    IF ~t.exists THEN 0
    ELSE IF Len(t.data) < size THEN Len(t.data)
    ELSE IF Len(t.data) = size
    THEN IF cell = checksum(t.data) THEN Len(t.data) ELSE 0
    ELSE 0

\* Downloader::init: the offset to resume from, given the temporary file and the report
\* that request_csum has just received
InitOffset(t, size) ==
    IF ~t.exists THEN 0
    ELSE IF Len(t.data) < size
    THEN IF /\ report'.limit = Len(t.data)
            /\ report'.checksum = checksum(t.data)
         THEN Len(t.data)
         ELSE 0
    ELSE IF Len(t.data) = size
    THEN IF cell = checksum(t.data) THEN Len(t.data) ELSE 0
    ELSE 0

\* a variant of validate that accepts every file, as the V1/V2 Downloader
validate_any(t) == "Ok"

\* Downloader::validate
validate(t) == IF cell # checksum(t.data) THEN "ChecksumMismatch" ELSE "Ok"

DlEv(k, err) == EvErr(k, "f1", run, FALSE, err)

InitDl ==
    /\ EngineIdle
    /\ NegIdle
    /\ IdleIdle
    /\ ExtIdle
    /\ st_xfers = [t \in Transfers |-> IF t = "T1" THEN EmptyRow ELSE NoRow]
    /\ st_out = [p \in Transfers \X Files |-> NoRow]
    /\ st_in = [p \in Transfers \X Files |-> IF p[1] = "T1" THEN EmptyRow ELSE NoRow]
    /\ st_ret = StRet("none", "-", NoFile, "none")
    /\ st_now = 0
    /\ st_calls = 0
    /\ st_inserted = [t \in Transfers |-> NoInfo]
    /\ src \in SeqsUpTo(MaxSize) \ {<<>>}
    /\ cell \in {checksum(q) : q \in {x \in SeqsUpTo(MaxSize) : Len(x) = Len(src)}}
    /\ tmp \in {NoData} \cup {[exists |-> TRUE, data |-> q] : q \in SeqsUpTo(MaxSize + 1)}
    /\ dst = NoData
    /\ offset = 0
    /\ dl_pc = "init"
    /\ run = 1
    /\ streamed = 0
    /\ interrupted_at = 0
    /\ last_csum = 0
    /\ report = NoReport

DlUnchanged ==
    UNCHANGED <<role, pc, cur, registered, rejections, api_q, jobs, tasks, checksums,
                ret, ncalls, nframes, nprog, ever_rejected, storageVars, negVars, idleVars,
                extVars, src, cell>>

ReqChsumMsg(limit) == [k |-> "ReqChsum", f |-> "f1", n |-> limit]
StartMsg(off) == [k |-> "Start", f |-> "f1", n |-> off]

\* Downloader::init and Downloader::open: the offset is chosen, Start{offset} is sent,
\* the temporary file is created empty for offset 0 and opened for append otherwise
DlInit ==
    /\ dl_pc = "init"
    /\ IF tmp.exists /\ Len(tmp.data) < Len(src)
       THEN report' \in Reports(Len(tmp.data), Len(src))
       ELSE report' = NoReport
    /\ offset' = InitOffset(tmp, Len(src))
    /\ tmp' = IF offset' = 0 THEN [exists |-> TRUE, data |-> <<>>] ELSE tmp
    /\ wire' = wire \o (IF tmp.exists /\ Len(tmp.data) < Len(src)
                        THEN <<ReqChsumMsg(Len(tmp.data))>> ELSE <<>>)
                  \o <<StartMsg(offset')>>
    /\ streamed' = 0
    /\ dl_pc' = "stream"
    /\ Emit(<<DlEv("Started", "none")>>)
    /\ DlUnchanged
    /\ UNCHANGED <<dst, run, interrupted_at, last_csum>>

\* the sender streams the next chunk from its position, the receiver appends it
DlChunk ==
    /\ dl_pc = "stream"
    /\ offset + streamed < Len(src)
    /\ LET n == Min(ChunkBytes, Len(src) - (offset + streamed)) IN
       /\ tmp' = [tmp EXCEPT !.data = @ \o SubSeq(src, offset + streamed + 1,
                                                  offset + streamed + n)]
       /\ streamed' = streamed + n
    /\ Emit(<<DlEv("Progress", "none")>>)
    /\ DlUnchanged
    /\ UNCHANGED <<wire, dst, offset, dl_pc, run, interrupted_at, last_csum, report>>

\* every byte is there: validate, then the temporary file becomes the final file and
\* FileDownloadSuccess is sent, or it is removed and FileDownloadFailed is sent
DlFinish ==
    /\ dl_pc = "stream"
    /\ offset + streamed = Len(src)
    /\ last_csum' = checksum(tmp.data)
    /\ IF validate(tmp) = "Ok"
       THEN /\ dst' = tmp
            /\ dl_pc' = "done"
            /\ Emit(<<DlEv("Success", "none")>>)
       ELSE /\ dst' = dst
            /\ dl_pc' = "failed"
            /\ Emit(<<DlEv("Failed", validate(tmp))>>)
    /\ tmp' = NoData
    /\ DlUnchanged
    /\ UNCHANGED <<wire, offset, run, streamed, interrupted_at, report>>

\* the connection breaks: the sub-task is aborted, the temporary file stays
DlInterrupt ==
    /\ dl_pc = "stream"
    /\ run = 1
    /\ dl_pc' = "interrupted"
    /\ interrupted_at' = Len(tmp.data)
    /\ DlUnchanged
    /\ UNCHANGED <<wire, events, bus, tmp, dst, offset, run, streamed, last_csum, report>>

\* the peers reconnect and the file is downloaded again with a new Downloader
DlRestart ==
    /\ dl_pc = "interrupted"
    /\ dl_pc' = "init"
    /\ run' = 2
    /\ offset' = 0
    /\ streamed' = 0
    /\ DlUnchanged
    /\ UNCHANGED <<wire, events, bus, tmp, dst, interrupted_at, last_csum, report>>

NextDl ==
    \/ DlInit
    \/ DlChunk
    \/ DlFinish
    \/ DlInterrupt
    \/ DlRestart

SpecDl == InitDl /\ [][NextDl]_vars

\* C7: a V3+ download that sends FileDownloadSuccess left a file whose digest equals
\* the checksum in the cell and no temporary file; when the digest of the received
\* file differs from the cell the download sends FileDownloadFailed with
\* ChecksumMismatch and never FileDownloadSuccess.
C7_SuccessMeansChecksum ==
    /\ CountEv("Success") > 0 =>
          /\ dst.exists
          /\ checksum(dst.data) = cell
          /\ last_csum = cell
          /\ ~tmp.exists
    /\ (dl_pc \in {"done", "failed"} /\ last_csum # cell) =>
          /\ CountEv("Success") = 0
          /\ events[Len(events)].k = "Failed"
          /\ events[Len(events)].err = "ChecksumMismatch"
    /\ dl_pc = "done" => CountEv("Success") = 1
    /\ dl_pc = "failed" => last_csum # cell

\* a resumed download that ended with FileDownloadSuccess
C7_Witness ==
    /\ CountEv("Success") = 1 /\ run = 2 /\ offset > 0
    /\ dst.data = src

\* the report init got, if any, is the one of a sender whose file is unchanged
UnchangedSender ==
    report = NoReport \/ (report.limit <= Len(src) /\ report = ReportChsum(report.limit))

\* C8: after connection 1 broke with K bytes of the S-byte file received, the download
\* on connection 2 from the same unchanged sender sends Start with offset K and the
\* sender streams exactly S - K bytes.
C8_ResumeAtK ==
    (run = 2 /\ dl_pc \in {"stream", "done", "failed"} /\ cell = checksum(src)
       /\ UnchangedSender) =>
       /\ wire[Len(wire)] = StartMsg(interrupted_at)
       /\ offset = interrupted_at
       /\ streamed <= Len(src) - interrupted_at
       /\ dl_pc \in {"done", "failed"} => streamed = Len(src) - interrupted_at

\* a 2-byte download that broke after 1 byte and took 1 more byte to complete
C8_Witness ==
    /\ run = 2 /\ dl_pc = "done" /\ cell = checksum(src)
    /\ Len(src) = 2 /\ interrupted_at = 1 /\ streamed = 1
    /\ UnchangedSender

\* Downloader::init is the step from "init" to "stream"
InitStep == dl_pc = "init" /\ dl_pc' = "stream"

\* the offset of the claim: P when the shorter temporary file is vouched for by a report
\* with limit P and its digest, P when the full-size temporary file has the cached digest
ResumeOffset ==
    LET P == Len(tmp.data)
        S == Len(src) IN
    IF tmp.exists /\ P < S /\ report'.limit = P /\ report'.checksum = checksum(tmp.data)
    THEN P
    ELSE IF tmp.exists /\ P = S /\ cell = checksum(tmp.data)
    THEN P
    ELSE 0

\* C25: init requests the offset P for a temporary file of P < S bytes whose digest the
\* report with limit P confirms, P for one of P = S bytes with the cached full digest and
\* 0 otherwise; the temporary file is truncated exactly when the offset is 0; for P < S
\* the ReqChsum(limit = P) goes out before the Start
C25_StartOffset ==
    [][InitStep =>
        /\ offset' = ResumeOffset
        /\ wire'[Len(wire')] = StartMsg(ResumeOffset)
        /\ tmp' = IF ResumeOffset = 0 THEN [exists |-> TRUE, data |-> <<>>] ELSE tmp
        /\ wire' = wire \o (IF tmp.exists /\ Len(tmp.data) < Len(src)
                            THEN <<ReqChsumMsg(Len(tmp.data)), StartMsg(ResumeOffset)>>
                            ELSE <<StartMsg(ResumeOffset)>>)]_vars

\* a download resumed at 1 after a report with limit 1 and the digest of the one byte
C25_Witness ==
    /\ dl_pc = "stream" /\ streamed = 0 /\ offset = 1 /\ Len(src) = 2
    /\ report = ReportChsum(1)
    /\ wire = <<ReqChsumMsg(1), StartMsg(1)>>

\* the temporary file has the size of the target and the digest of the cell
FullTempFile ==
    tmp.exists /\ Len(tmp.data) = Len(src) /\ cell = checksum(tmp.data)

\* C26: with a temporary file of exactly the target size whose digest equals the cached
\* full digest, init sends the peer nothing (no Start) and the file is validated and
\* completed without a chunk
C26_FullTempSkipsStart ==
    [][(InitStep /\ FullTempFile) => (wire' = wire /\ offset' = Len(src))]_vars

\* what init does for such a file: Start{offset = S} is sent, and the file completes
\* with no chunk streamed
C26_FullTempStartsAtEnd ==
    [][(InitStep /\ FullTempFile) =>
            (wire' = wire \o <<StartMsg(Len(src))>> /\ offset' = Len(src))]_vars

\* a complete temporary file was found, Start{offset = 2} went out, the file is done
C26_Witness ==
    /\ run = 1 /\ dl_pc = "done" /\ Len(src) = 2 /\ offset = 2 /\ streamed = 0
    /\ wire = <<StartMsg(2)>>
    /\ dst.exists /\ dst.data = src

(***************************************************************************)
(* The idle timeout of the message loop: the recv branch of the select     *)
(* waits for the next frame for what is left of transfer_idle_lifetime     *)
(* since last_recv.  Time is counted in ticks; frames of the peer arrive   *)
(* in the socket and wait there while the loop is busy in another branch.  *)
(***************************************************************************)
\* the last tick of the clock
MaxTime == 5
\* frames waiting in the socket
MaxInbox == 1
\* times the loop takes another branch of the select
MaxBusy == 2

\* the handlers with a recv_timeout: client and server v2 with and without PING, server v4
IdleHandlers == {"v2::HandlerInit<false>", "v2::HandlerInit<true>", "v4::HandlerInit"}

\* the WS frame kinds; Bad is a text or binary frame that cannot be decoded
IdleFrames == {"Text", "Binary", "Ping", "Pong", "Close", "Bad"}

\* the const generic PING of the v2 handlers; the v4 handler always has the timeout
PING(h) == h # "v2::HandlerInit<false>"

\* Duration::saturating_sub
saturating_sub(a, b) == IF a > b THEN a - b ELSE 0

\* a variant of recv_timeout that waits for ever, as a handler without PING
recv_timeout_none(h) == [some |-> FALSE, d |-> 0]

\* HandlerLoop::recv_timeout
recv_timeout(h) ==
    IF PING(h)
    THEN [some |-> TRUE, d |-> saturating_sub(transfer_idle_lifetime, now - last_recv)]
    ELSE [some |-> FALSE, d |-> 0]

\* utils::recv would give the timeout error now: nothing to read and no time left
RecvTimedOut == inbox = <<>> /\ recv_timeout(handler).some /\ recv_timeout(handler).d = 0

InitIdle ==
    /\ role \in {"client", "server"}
    /\ handler \in IF role = "client" THEN IdleHandlers \ {"v4::HandlerInit"} ELSE IdleHandlers
    /\ pc = "select"
    /\ cur = NoFrame
    /\ registered = TRUE
    /\ rejections = {}
    /\ api_q = <<>>
    /\ jobs = <<>>
    /\ tasks = [f \in Files |-> 0]
    /\ checksums = {}
    /\ events = <<TransferEv("Queued", FALSE)>>
    /\ bus = <<>>
    /\ wire = <<>>
    /\ ret = [op |-> "none", f |-> NoFile, res |-> "none", sent |-> FALSE,
              pre |-> FALSE, reg |-> FALSE]
    /\ ncalls = 0
    /\ nframes = 0
    /\ nprog = 0
    /\ ever_rejected = {}
    /\ st_xfers = [t \in Transfers |-> IF t = "T1" THEN EmptyRow ELSE NoRow]
    /\ st_out = [p \in Transfers \X Files |-> NoRow]
    /\ st_in = [p \in Transfers \X Files |-> NoRow]
    /\ st_ret = StRet("none", "-", NoFile, "none")
    /\ st_now = 0
    /\ st_calls = 0
    /\ st_inserted = [t \in Transfers |-> NoInfo]
    /\ max_retry_interval = 0
    /\ req_timeout = 0
    /\ sleep_time = 0
    /\ elapsed = 0
    /\ nretry = 0
    /\ tried = <<>>
    /\ ver = "none"
    /\ DlIdle
    /\ now = 0
    /\ last_recv = 0
    /\ transfer_idle_lifetime \in {2, 3}
    /\ inbox = <<>>
    /\ last_arrival = 0
    /\ ExtIdle

IdleUnchanged ==
    UNCHANGED <<role, registered, rejections, checksums, wire, ret, nframes, nprog,
                ever_rejected, storageVars, negVars, dlVars, extVars,
                transfer_idle_lifetime>>

\* a frame of the peer arrives in the socket
IdleArrive(k) ==
    /\ pc \in {"select", "busy"}
    /\ Len(inbox) < MaxInbox
    /\ inbox' = Append(inbox, k)
    /\ last_arrival' = now
    /\ IdleUnchanged
    /\ UNCHANGED <<pc, cur, api_q, jobs, tasks, events, bus, ncalls, now, last_recv>>

\* the recv branch gets a frame: on_recv sets last_recv, then looks at the frame
IdleRecv ==
    /\ pc = "select"
    /\ inbox # <<>>
    /\ inbox' = Tail(inbox)
    /\ last_recv' = now
    /\ IF Head(inbox) = "Close" THEN LoopClose(TRUE)
       ELSE IF Head(inbox) = "Bad" THEN LoopFail("BadTransferState")
       ELSE UNCHANGED <<pc, cur, api_q, jobs, tasks, events, bus>>
    /\ IdleUnchanged
    /\ UNCHANGED <<ncalls, now, last_arrival>>

\* the recv branch gets the timeout error: the loop ends, on_stop, finalize_failure
IdleTimedOut ==
    /\ pc = "select"
    /\ RecvTimedOut
    /\ LoopFail("TransferTimeout")
    /\ IdleUnchanged
    /\ UNCHANGED <<ncalls, now, last_recv, inbox, last_arrival>>

\* the select takes another branch (a request, a message to send, a ping tick) and
\* the loop awaits its socket send
IdleBusy ==
    /\ pc = "select"
    /\ ncalls < MaxBusy
    /\ ncalls' = ncalls + 1
    /\ pc' = "busy"
    /\ IdleUnchanged
    /\ UNCHANGED <<cur, api_q, jobs, tasks, events, bus, now, last_recv, inbox, last_arrival>>

\* the socket send completes or fails
IdleBusyEnd ==
    /\ pc = "busy"
    /\ \E ok \in BOOLEAN :
          IF ok THEN pc' = "select" /\ UNCHANGED <<cur, api_q, jobs, tasks, events, bus>>
          ELSE LoopFail("Ws")
    /\ IdleUnchanged
    /\ UNCHANGED <<ncalls, now, last_recv, inbox, last_arrival>>

\* a tick of the clock; a loop that waits in the select takes a ready frame or the
\* timeout before the clock moves on
IdleTick ==
    /\ pc \in {"select", "busy"}
    /\ now < MaxTime
    /\ pc = "select" => (inbox = <<>> /\ ~RecvTimedOut)
    /\ now' = now + 1
    /\ IdleUnchanged
    /\ UNCHANGED <<pc, cur, api_q, jobs, tasks, events, bus, ncalls, last_recv, inbox,
                   last_arrival>>

NextIdle ==
    \/ \E k \in IdleFrames : IdleArrive(k)
    \/ IdleRecv
    \/ IdleTimedOut
    \/ IdleBusy
    \/ IdleBusyEnd
    \/ IdleTick

\* the timer and a ready frame are served when the loop waits in the select, and a
\* socket send comes to an end
SpecIdle ==
    /\ InitIdle
    /\ [][NextIdle]_vars
    /\ WF_vars(IdleRecv)
    /\ WF_vars(IdleTimedOut)
    /\ WF_vars(IdleBusyEnd)

CHUNK_SIZE == 2
\* the size of a file on disk
MaxFile == 4
\* changes of the file on disk while it is read
MaxMods == 2

\* the journal is empty and no Storage call was made
StorageIdle ==
    /\ st_xfers = [t \in Transfers |-> NoRow]
    /\ st_out = [p \in Transfers \X Files |-> NoRow]
    /\ st_in = [p \in Transfers \X Files |-> NoRow]
    /\ st_ret = StRet("none", "-", NoFile, "none")
    /\ st_now = 0
    /\ st_calls = 0
    /\ st_inserted = [t \in Transfers |-> NoInfo]

\* FileReader::new: the metadata of the file as it is when it is opened
InitReader ==
    /\ EngineIdle
    /\ StorageIdle
    /\ NegIdle
    /\ DlIdle
    /\ IdleIdle
    /\ rd_len \in 0..(MaxFile - 1)
    /\ rd_size = rd_len
    /\ rd_touched = FALSE
    /\ rd_total = 0
    /\ rd_yielded = 0
    /\ rd_last = NoRead
    /\ rd_mods = 0
    /\ DispatchIdle
    /\ CsumIdle
    /\ ValidateIdle

ReaderUnchanged ==
    UNCHANGED <<engineVars, storageVars, negVars, dlVars, idleVars, dispatchVars, csumVars,
                validateVars, rd_len>>

\* the file is written to or truncated on disk; touch: its modification time changes
RdModify(size, touch) ==
    /\ rd_mods < MaxMods
    /\ size # rd_size \/ (touch /\ ~rd_touched)
    /\ rd_mods' = rd_mods + 1
    /\ rd_size' = size
    /\ rd_touched' = (rd_touched \/ touch)
    /\ UNCHANGED <<rd_total, rd_yielded, rd_last>>
    /\ ReaderUnchanged

\* the bytes between the read position and the end of the file
Available == IF rd_size > rd_total THEN rd_size - rd_total ELSE 0

\* self.is_mtime_ok().unwrap_or(true): a failing metadata query counts as unchanged
is_mtime_ok(meta_ok) == IF meta_ok THEN ~rd_touched ELSE TRUE

\* FileReader::read_chunk is called and the read yields n bytes
RdRead(n, io_ok, meta_ok) ==
    /\ rd_last.res \in {"none", "Some"}
    /\ IF io_ok
       THEN /\ n <= Available
            /\ n = 0 <=> Available = 0
       ELSE n = 0
    /\ rd_total' = rd_total + n
    /\ LET res == read_chunk([io_ok |-> io_ok, mtime_ok |-> is_mtime_ok(meta_ok), n |-> n,
                              total |-> rd_total + n, len |-> rd_len])
       IN /\ rd_yielded' = IF res = "Some" THEN rd_yielded + n ELSE rd_yielded
          /\ rd_last' = [n |-> n, io_ok |-> io_ok, meta_ok |-> meta_ok, res |-> res,
                         touched |-> rd_touched, total |-> rd_total + n]
    /\ UNCHANGED <<rd_size, rd_touched, rd_mods>>
    /\ ReaderUnchanged

NextReader ==
    \/ \E size \in 0..MaxFile, touch \in BOOLEAN : RdModify(size, touch)
    \/ \E n \in 0..CHUNK_SIZE, io_ok \in BOOLEAN, meta_ok \in BOOLEAN : RdRead(n, io_ok, meta_ok)

SpecReader == InitReader /\ [][NextReader]_vars

\* C24: a sequence of read_chunk calls ends with None only if the bytes yielded equal
\* the size recorded at open; a call whose read succeeds fails with FileModified if
\* the modification time is seen to differ from the one recorded at open, else with
\* MismatchedSize if the cumulative read exceeds the recorded size or the end of the
\* file comes before it; every chunk yielded has at most CHUNK_SIZE bytes.
C24_ReadChunkSequence ==
    /\ rd_last.res = "None" => rd_yielded = rd_len
    /\ rd_yielded <= rd_len
    /\ rd_last.res = "Some" => rd_last.n >= 1 /\ rd_last.n <= CHUNK_SIZE
    /\ (rd_last.res # "none" /\ rd_last.io_ok) =>
          IF rd_last.meta_ok /\ rd_last.touched
          THEN rd_last.res = "FileModified"
          ELSE (rd_last.total > rd_len \/ (rd_last.n = 0 /\ rd_last.total < rd_len))
                  <=> rd_last.res = "MismatchedSize"

\* a file of more than one chunk was read to its end
C24_Witness ==
    /\ rd_last.res = "None"
    /\ rd_len > CHUNK_SIZE
    /\ rd_yielded = rd_len

(***************************************************************************)
(* The Storage Dispatcher on its own: handle_event is called with file     *)
(* events of three (transfer, file) pairs; the byte count of the Cancel    *)
(* and Failed rows comes from the file_progress map.                       *)
(***************************************************************************)
\* events handled in one run
MaxHandled == 4
\* the width of the progress counter of crate::Event (u64 in the code)
ProgressBits == 3
\* the progress values the events carry
ProgressValues == {1, 2, 7}

\* `progress as i64`: the unsigned counter read as a signed one of the same width
as_i64(n) == IF n < 2 ^ (ProgressBits - 1) THEN n ELSE n - 2 ^ ProgressBits

\* a variant of get_file_progress that reads the entry and leaves it in the map
get_file_progress_keeps(key) ==
    <<IF file_progress[key].some THEN file_progress[key].v ELSE 0, file_progress>>

\* StorageDispatch::get_file_progress: remove(..).unwrap_or(0); yields <<value, map>>
get_file_progress(key) ==
    <<IF file_progress[key].some THEN file_progress[key].v ELSE 0,
      [file_progress EXCEPT ![key] = NoEntry]>>

Handled(k, key, v, ok) == [k |-> k, key |-> key, v |-> v, ok |-> ok]
Row(k, bytes) == [k |-> k, bytes |-> bytes]

InitDispatch ==
    /\ EngineIdle
    /\ StorageIdle
    /\ NegIdle
    /\ DlIdle
    /\ IdleIdle
    /\ ReaderIdle
    /\ DispatchIdle
    /\ CsumIdle
    /\ ValidateIdle

DispatchUnchanged ==
    UNCHANGED <<engineVars, storageVars, negVars, dlVars, idleVars, readerVars, csumVars,
                validateVars>>

\* handle_event(File*Progress): the value is stored in the map
DpProgress(key, n) ==
    /\ Len(dp_handled) < MaxHandled
    /\ file_progress' = [file_progress EXCEPT ![key] = Entry(as_i64(n))]
    /\ dp_handled' = Append(dp_handled, Handled("Progress", key, as_i64(n), TRUE))
    /\ UNCHANGED dp_journal
    /\ DispatchUnchanged

\* handle_event(File*Cancelled) and handle_event(File*Failed): get_file_progress, then
\* the insert of the state row, which fails (ok = FALSE) when the storage does
DpStop(k, key, ok) ==
    /\ Len(dp_handled) < MaxHandled
    /\ file_progress' = get_file_progress(key)[2]
    /\ dp_journal' = IF ok
                     THEN [dp_journal EXCEPT
                              ![key] = Append(@, Row(k, get_file_progress(key)[1]))]
                     ELSE dp_journal
    /\ dp_handled' = Append(dp_handled, Handled(k, key, 0, ok))
    /\ DispatchUnchanged

\* handle_event(File*Started): the row is inserted with 0 bytes
DpStarted(key, ok) ==
    /\ Len(dp_handled) < MaxHandled
    /\ dp_journal' = IF ok THEN [dp_journal EXCEPT ![key] = Append(@, Row("Started", 0))]
                     ELSE dp_journal
    /\ dp_handled' = Append(dp_handled, Handled("Started", key, 0, ok))
    /\ UNCHANGED file_progress
    /\ DispatchUnchanged

\* handle_event(File*Complete) and handle_event(FileReject): the insert of the state
\* row and nothing else
DpFinal(k, key, ok) ==
    /\ Len(dp_handled) < MaxHandled
    /\ dp_journal' = IF ok THEN [dp_journal EXCEPT ![key] = Append(@, Row(k, 0))]
                     ELSE dp_journal
    /\ dp_handled' = Append(dp_handled, Handled(k, key, 0, ok))
    /\ UNCHANGED file_progress
    /\ DispatchUnchanged

NextDispatch ==
    \/ \E key \in Keys, n \in ProgressValues : DpProgress(key, n)
    \/ \E k \in {"Cancel", "Failed"}, key \in Keys, ok \in BOOLEAN : DpStop(k, key, ok)
    \/ \E key \in Keys, ok \in BOOLEAN : DpStarted(key, ok)
    \/ \E k \in {"Completed", "Reject"}, key \in Keys, ok \in BOOLEAN : DpFinal(k, key, ok)

SpecDispatch == InitDispatch /\ [][NextDispatch]_vars

RECURSIVE RowsOf(_, _, _)
\* the rows the handled events h leave for key, last being the value of the last
\* Progress of key since its previous Cancel or Failed (0 if none)
RowsOf(h, key, last) ==
    IF h = <<>> THEN <<>>
    ELSE LET e == Head(h) IN
         IF e.key # key THEN RowsOf(Tail(h), key, last)
         ELSE IF e.k = "Progress" THEN RowsOf(Tail(h), key, e.v)
         ELSE IF e.k \in {"Started", "Completed", "Reject"}
         THEN (IF e.ok THEN <<Row(e.k, 0)>> ELSE <<>>) \o RowsOf(Tail(h), key, last)
         ELSE (IF e.ok THEN <<Row(e.k, last)>> ELSE <<>>) \o RowsOf(Tail(h), key, 0)

\* the Progress, Cancel and Failed events handled for key
Counted(key) ==
    {i \in DOMAIN dp_handled :
        dp_handled[i].key = key /\ dp_handled[i].k \in {"Progress", "Cancel", "Failed"}}

\* C28: a Progress event only updates the map and appends nothing to the journal; the
\* byte count of a journaled Cancel or Failed row of (transfer, file) is the value of
\* the last Progress handled for that pair since its previous Cancel/Failed, or 0 if
\* there was none; handling a Cancel/Failed removes the map entry, so the map holds an
\* entry exactly for the pairs whose last such event was a Progress.
C28_BytesOfLastProgress ==
    \A key \in Keys :
        /\ dp_journal[key] = RowsOf(dp_handled, key, 0)
        /\ file_progress[key].some <=>
              (\E i \in Counted(key) :
                  /\ dp_handled[i].k = "Progress"
                  /\ \A j \in Counted(key) : j <= i)
        /\ file_progress[key].some =>
              \E i \in Counted(key) :
                  /\ dp_handled[i].v = file_progress[key].v
                  /\ \A j \in Counted(key) : j <= i

\* Progress 2, Cancel, Failed for (T1, f1), with a Progress of (T2, f1) in between: the
\* Cancel row has 2 bytes, the Failed row 0
C28_Witness ==
    /\ dp_journal[<<"T1", "f1">>] = <<Row("Cancel", 2), Row("Failed", 0)>>
    /\ file_progress[<<"T2", "f1">>] = Entry(1)
    /\ Len(dp_handled) = 4

\* the last event handled for key is one of the kinds
LastOf(key, kinds) ==
    \E i \in DOMAIN dp_handled :
        /\ dp_handled[i].key = key
        /\ dp_handled[i].k \in kinds
        /\ \A j \in DOMAIN dp_handled : dp_handled[j].key = key => j <= i

\* C40 as stated: after a terminal event of (transfer, file) of any kind (Completed,
\* Reject, Cancel, Failed) was handled, the progress map holds no entry for the pair
C40_TerminalClearsEntry ==
    \A key \in Keys :
        LastOf(key, {"Completed", "Reject", "Cancel", "Failed"}) => ~file_progress[key].some

\* C40, what the code does: the entry is gone after a Cancel or a Failed
C40_StopClearsEntry ==
    \A key \in Keys : LastOf(key, {"Cancel", "Failed"}) => ~file_progress[key].some

\* Progress 2 and Completed for (T1, f1), then a second run of the file that fails
\* before any progress: the Failed row carries the 2 bytes of the finished run
C40_Witness ==
    /\ dp_handled = <<Handled("Progress", <<"T1", "f1">>, 2, TRUE),
                      Handled("Completed", <<"T1", "f1">>, 0, TRUE),
                      Handled("Started", <<"T1", "f1">>, 0, TRUE),
                      Handled("Failed", <<"T1", "f1">>, 0, TRUE)>>
    /\ dp_journal[<<"T1", "f1">>] =
           <<Row("Completed", 0), Row("Started", 0), Row("Failed", 2)>>

(***************************************************************************)
(* The checksum cells of the V3+ server loop: upgrade fills them from the  *)
(* journal and asks the peer for the missing ones, on_checksum fills a     *)
(* cell from a full-size report and has the digest saved.                  *)
(***************************************************************************)
\* connections of one transfer
MaxConn == 2
\* ReportChsum messages of one run
MaxReports == 3
\* digests
Digests == {1, 2}
\* xfile.size()
Size(f) == IF f = "f1" THEN 2 ELSE 1

ReqChsum(f, limit) == [k |-> "ReqChsum", f |-> f, n |-> limit]

\* the orders a set of files can come in
Orders(S) == {q \in UNION {[1..n -> S] : n \in {Cardinality(S)}} :
                \A i, j \in DOMAIN q : i # j => q[i] # q[j]}

\* a variant of the cell's or_set that overwrites a filled cell
or_set_overwrites(c, v) == Full(v)

\* AsyncCell::or_set: the value is set if the cell is empty
or_set(c, v) == IF c.some THEN c ELSE Full(v)

\* a variant of to_fetch that asks for the checksum of every file with a row
to_fetch_every(loaded) == {f \in Files : loaded[f].row}

\* upgrade: to_fetch, the files whose row has no checksum
to_fetch(loaded) == {f \in Files : loaded[f].row /\ ~loaded[f].some}

InitCsum ==
    /\ EngineIdle
    /\ StorageIdle
    /\ NegIdle
    /\ DlIdle
    /\ IdleIdle
    /\ ReaderIdle
    /\ DispatchIdle
    /\ cs_db \in [Files -> {NoPath, Null} \cup {Saved(v) : v \in Digests}]
    /\ cs_cells = [f \in Files |-> NoCell]
    /\ cs_wire = <<>>
    /\ cs_pc = "upgrade"
    /\ cs_to_fetch = <<>>
    /\ cs_saves = {}
    /\ cs_conn = 1
    /\ cs_nrep = 0
    /\ cs_loaded = [f \in Files |-> NoPath]
    /\ cs_reported = {}
    /\ cs_last = NoChsum
    /\ ValidateIdle

CsumUnchanged ==
    UNCHANGED <<engineVars, storageVars, negVars, dlVars, idleVars, readerVars, dispatchVars,
                validateVars>>

\* HandlerInit::upgrade: fetch_checksums, a cell per row, set for the rows that have a
\* checksum; the request task is spawned for the others; ok = FALSE: the query fails
CsUpgrade(ok) ==
    /\ cs_pc = "upgrade"
    /\ cs_wire' = <<>>
    /\ cs_reported' = {}
    /\ IF ok
       THEN /\ cs_loaded' = cs_db
            /\ cs_cells' = [f \in Files |->
                               IF ~cs_db[f].row THEN NoCell
                               ELSE IF cs_db[f].some THEN Full(cs_db[f].v)
                               ELSE EmptyCell]
            /\ cs_to_fetch' \in Orders(to_fetch(cs_db))
            /\ cs_pc' = "loop"
       ELSE /\ cs_loaded' = [f \in Files |-> NoPath]
            /\ cs_cells' = [f \in Files |-> NoCell]
            /\ cs_to_fetch' = <<>>
            /\ cs_pc' = "over"
    /\ UNCHANGED <<cs_db, cs_saves, cs_conn, cs_nrep, cs_last>>
    /\ CsumUnchanged

\* req_file_checksums: ReqChsum{file, limit: size} for the next file of to_fetch; the
\* send fails with a warning once the loop has gone
CsRequest ==
    /\ cs_to_fetch # <<>>
    /\ cs_wire' = IF cs_pc = "loop"
                  THEN Append(cs_wire, ReqChsum(Head(cs_to_fetch), Size(Head(cs_to_fetch))))
                  ELSE cs_wire
    /\ cs_to_fetch' = Tail(cs_to_fetch)
    /\ UNCHANGED <<cs_db, cs_cells, cs_pc, cs_saves, cs_conn, cs_nrep, cs_loaded,
                   cs_reported, cs_last>>
    /\ CsumUnchanged

\* HandlerLoop::on_checksum: a report for a file of the transfer with limit = size goes
\* to the cell (a missing cell panics) and a save_checksum task is spawned; any other
\* report goes to the download task
CsOnChecksum(file, limit, v) ==
    /\ cs_pc = "loop"
    /\ cs_nrep < MaxReports
    /\ cs_nrep' = cs_nrep + 1
    /\ cs_last' = [op |-> "report", file |-> file, limit |-> limit, checksum |-> v,
                   met |-> IF file \in Files THEN cs_cells[file] ELSE NoCell]
    /\ IF file \in Files /\ limit = Size(file)
       THEN IF cs_cells[file].has
            THEN /\ cs_cells' = [cs_cells EXCEPT ![file] = or_set(@, v)]
                 /\ cs_saves' = cs_saves \cup {<<file, v>>}
                 /\ cs_reported' = cs_reported \cup {file}
                 /\ UNCHANGED cs_pc
            ELSE /\ cs_pc' = "panicked"
                 /\ UNCHANGED <<cs_cells, cs_saves, cs_reported>>
       ELSE UNCHANGED <<cs_cells, cs_saves, cs_reported, cs_pc>>
    /\ UNCHANGED <<cs_db, cs_wire, cs_to_fetch, cs_conn, cs_loaded>>
    /\ CsumUnchanged

\* HandlerLoop::issue_download with no job of the file running: the cell of the file is
\* looked up for the new download task; without it the request fails, which ends the
\* loop with TransferFailed
CsDownload(file) ==
    /\ cs_pc = "loop"
    /\ cs_last # [op |-> "download", file |-> file, limit |-> 0, checksum |-> 0,
                  met |-> cs_cells[file]]
    /\ cs_last' = [op |-> "download", file |-> file, limit |-> 0, checksum |-> 0,
                   met |-> cs_cells[file]]
    /\ cs_pc' = IF cs_cells[file].has THEN cs_pc ELSE "failed"
    /\ UNCHANGED <<cs_db, cs_cells, cs_wire, cs_to_fetch, cs_saves, cs_conn, cs_nrep,
                   cs_loaded, cs_reported>>
    /\ CsumUnchanged

\* a spawned save_checksum runs: UPDATE incoming_paths SET checksum; ok = FALSE: it
\* fails and the error is logged
CsSave(task, ok) ==
    /\ task \in cs_saves
    /\ cs_saves' = cs_saves \ {task}
    /\ cs_db' = IF ok /\ cs_db[task[1]].row
                THEN [cs_db EXCEPT ![task[1]] = Saved(task[2])]
                ELSE cs_db
    /\ UNCHANGED <<cs_cells, cs_wire, cs_pc, cs_to_fetch, cs_conn, cs_nrep, cs_loaded,
                   cs_reported, cs_last>>
    /\ CsumUnchanged

\* the connection ends; the loop and its cells are dropped
CsDisconnect ==
    /\ cs_pc = "loop"
    /\ cs_pc' = "over"
    /\ UNCHANGED <<cs_db, cs_cells, cs_wire, cs_to_fetch, cs_saves, cs_conn, cs_nrep,
                   cs_loaded, cs_reported, cs_last>>
    /\ CsumUnchanged

\* the peer connects again: a new HandlerInit is about to be upgraded; what the old
\* request task still sends goes nowhere
CsReconnect ==
    /\ cs_pc \in {"over", "panicked", "failed"}
    /\ cs_conn < MaxConn
    /\ cs_conn' = cs_conn + 1
    /\ cs_pc' = "upgrade"
    /\ cs_to_fetch' = <<>>
    /\ UNCHANGED <<cs_db, cs_cells, cs_wire, cs_saves, cs_nrep, cs_loaded, cs_reported,
                   cs_last>>
    /\ CsumUnchanged

NextCsum ==
    \/ \E ok \in BOOLEAN : CsUpgrade(ok)
    \/ CsRequest
    \/ \E file \in Files \cup {UnknownFile}, limit \in 1..2, v \in Digests :
          CsOnChecksum(file, limit, v)
    \/ \E file \in Files : CsDownload(file)
    \/ \E task \in Files \X Digests, ok \in BOOLEAN : CsSave(task, ok)
    \/ CsDisconnect
    \/ CsReconnect

SpecCsum == InitCsum /\ [][NextCsum]_vars

\* C29: a checksum cell is single-assignment: once the cell of a file in a loop holds
\* a digest, loaded at upgrade or set by the first full-size ReportChsum, no step of
\* that loop changes or empties it; a later full-size ReportChsum with another digest
\* leaves it as it is.
C29_CellSingleAssignment ==
    [][\A f \in Files :
          (cs_cells[f].some /\ cs_pc # "upgrade") => cs_cells'[f] = cs_cells[f]]_vars

\* a full-size report with digest 2 was handled for f1, whose cell held 1 and holds it
C29_Witness ==
    /\ cs_pc = "loop"
    /\ cs_last.op = "report"
    /\ cs_last.file = "f1" /\ cs_last.limit = Size("f1") /\ cs_last.checksum = 2
    /\ cs_last.met = Full(1)
    /\ cs_cells["f1"] = Full(1)

\* the ReqChsum messages enqueued for file f in this connection
Requests(f) == {i \in DOMAIN cs_wire : cs_wire[i].f = f}

SavesDone == cs_saves = {}

\* C37: after any sequence of full-size ReportChsum messages for a file, the checksum
\* persisted in the journal for that file equals the value held in the file's cell, so
\* a restart resumes with the digest the running transfer validated against.  Checked
\* once the spawned save_checksum tasks have run.
C37_JournalEqualsCell ==
    (cs_pc = "loop" /\ SavesDone) =>
        \A f \in cs_reported :
            cs_db[f].some /\ cs_cells[f].some /\ cs_db[f].v = cs_cells[f].v

\* what the code keeps: the cell holds the first digest it was given, the journal the
\* digest of some full-size report handled for the file or the one loaded at upgrade
C37_JournalHoldsSomeReport ==
    [][\A f \in Files :
          cs_db'[f] # cs_db[f] => \E v \in Digests : <<f, v>> \in cs_saves /\ cs_db'[f] = Saved(v)]_vars

\* f1 was reported with digest 1, then with digest 2: the cell holds 1, the journal 2
C37_Witness ==
    /\ cs_pc = "loop" /\ SavesDone
    /\ cs_cells["f1"] = Full(1)
    /\ cs_db["f1"] = Saved(2)
    /\ cs_loaded["f1"] = Null

\* C38: after upgrade a checksum cell exists for every file of the transfer, also when
\* rows of the transfer are missing from the journal: a full-size ReportChsum for a
\* file of the transfer never panics on a missing cell and a Download request never
\* fails for a missing cell.
C38_CellForEveryFile ==
    /\ cs_pc = "loop" => \A f \in Files : cs_cells[f].has
    /\ cs_pc \notin {"panicked", "failed"}

\* what upgrade builds: a cell for exactly the files that have a row in the journal;
\* the loop panics or fails only on a file without one
C38_CellForEveryRow ==
    /\ cs_pc = "loop" => \A f \in Files : cs_cells[f].has <=> cs_loaded[f].row
    /\ cs_pc \in {"panicked", "failed"} =>
          /\ cs_last.file \in Files
          /\ ~cs_loaded[cs_last.file].row
          /\ cs_last.met = NoCell
          /\ cs_pc = "panicked" <=> cs_last.op = "report"

\* the row of f2 was missing at upgrade; the Download request for f2 has ended the loop
C38_Witness ==
    /\ cs_pc = "failed"
    /\ cs_last.op = "download" /\ cs_last.file = "f2"
    /\ cs_loaded["f1"].row /\ ~cs_loaded["f2"].row
    /\ cs_cells["f1"].has /\ ~cs_cells["f2"].has


(***************************************************************************)
(* A V4 download sub-task waiting for the full checksum of its file        *)
(***************************************************************************)
\* transfer_idle_lifetime of the configurations checked, in ticks
MaxLifetime == 2

\* HandlerInit::upgrade for one file: the cell is filled when the journal has the
\* checksum, else the request task has a ReqChsum to send; the loop starts with
\* last_recv = now
InitValidate ==
    /\ EngineIdle
    /\ StorageIdle
    /\ NegIdle
    /\ DlIdle
    /\ IdleIdle
    /\ ReaderIdle
    /\ DispatchIdle
    /\ CsumIdle
    /\ vd_pc = "none"
    /\ vd_cell \in {EmptyCell} \cup {Full(v) : v \in Digests}
    /\ vd_req = IF vd_cell.some THEN "none" ELSE "queued"
    /\ vd_loop = "alive"
    /\ vd_idle = 0
    /\ vd_lifetime \in 1..MaxLifetime
    /\ vd_digest \in Digests

ValidateUnchanged ==
    UNCHANGED <<engineVars, storageVars, negVars, dlVars, idleVars, readerVars, dispatchVars,
                csumVars, vd_lifetime, vd_digest>>

\* the request task of upgrade: msg_tx.send(ReqChsum) reaches the peer while the loop
\* holds the receiver, and only warns when it does not
VdRequest ==
    /\ vd_req = "queued"
    /\ vd_req' = IF vd_loop = "alive" THEN "sent" ELSE "dropped"
    /\ UNCHANGED <<vd_pc, vd_cell, vd_loop, vd_idle>>
    /\ ValidateUnchanged

\* on_recv of a frame: last_recv = Instant::now()
Received == vd_idle' = 0

\* on_recv(Download): issue_download spawns the sub-task; same_size: the temporary file
\* has the size of the file, and init waits for the cell
VdDownload(same_size) ==
    /\ vd_loop = "alive"
    /\ vd_pc = "none"
    /\ vd_pc' = IF same_size THEN "init" ELSE "stream"
    /\ Received
    /\ UNCHANGED <<vd_cell, vd_req, vd_loop>>
    /\ ValidateUnchanged

\* Downloader::init, Ordering::Equal: full_csum.get().await returns once the cell is full
VdInit ==
    /\ vd_pc = "init"
    /\ vd_cell.some
    /\ vd_pc' = "stream"
    /\ UNCHANGED <<vd_cell, vd_req, vd_loop, vd_idle>>
    /\ ValidateUnchanged

\* the last chunk of the file arrived and was written: the sub-task calls validate
VdAllBytes ==
    /\ vd_loop = "alive"
    /\ vd_pc = "stream"
    /\ vd_pc' = "validate"
    /\ Received
    /\ UNCHANGED <<vd_cell, vd_req, vd_loop>>
    /\ ValidateUnchanged

\* Downloader::validate: full_csum.get().await returns once the cell is full, and the
\* checksum of the file is compared with it
validate_await ==
    /\ vd_pc = "validate"
    /\ vd_cell.some
    /\ vd_pc' = IF vd_cell.v = vd_digest THEN "success" ELSE "failed"

\* the sub-task runs validate and emits FileDownloadSuccess or FileDownloadFailed
VdValidate ==
    /\ validate_await
    /\ UNCHANGED <<vd_cell, vd_req, vd_loop, vd_idle>>
    /\ ValidateUnchanged

\* on_recv(ReportChsum) of the whole file: the sender answers a ReqChsum that reached it
VdReport(v) ==
    /\ vd_loop = "alive"
    /\ vd_req = "sent"
    /\ ~vd_cell.some
    /\ vd_cell' = or_set(vd_cell, v)
    /\ Received
    /\ UNCHANGED <<vd_pc, vd_req, vd_loop>>
    /\ ValidateUnchanged

\* on_recv(Ping): nothing but last_recv changes
VdPing ==
    /\ vd_loop = "alive"
    /\ vd_idle > 0
    /\ Received
    /\ UNCHANGED <<vd_pc, vd_cell, vd_req, vd_loop>>
    /\ ValidateUnchanged

\* a tick passes without a frame
VdTick ==
    /\ vd_loop = "alive"
    /\ vd_idle < vd_lifetime
    /\ vd_idle' = vd_idle + 1
    /\ UNCHANGED <<vd_pc, vd_cell, vd_req, vd_loop>>
    /\ ValidateUnchanged

\* recv_timeout elapsed: the loop ends and on_stop aborts the sub-task without an event
VdTimeout ==
    /\ vd_loop = "alive"
    /\ vd_idle = vd_lifetime
    /\ vd_loop' = "timed_out"
    /\ vd_pc' = IF vd_pc \in {"init", "stream", "validate"} THEN "aborted" ELSE vd_pc
    /\ UNCHANGED <<vd_cell, vd_req, vd_idle>>
    /\ ValidateUnchanged

NextValidate ==
    \/ VdRequest
    \/ \E same_size \in BOOLEAN : VdDownload(same_size)
    \/ VdInit
    \/ VdAllBytes
    \/ VdValidate
    \/ \E v \in Digests : VdReport(v)
    \/ VdPing
    \/ VdTick
    \/ VdTimeout

\* the tasks of the receiver run and time passes; nothing obliges the sender to answer
\* or to stop pinging
SpecValidate ==
    /\ InitValidate
    /\ [][NextValidate]_vars
    /\ WF_vars(VdRequest)
    /\ WF_vars(VdInit)
    /\ WF_vars(VdValidate)
    /\ WF_vars(VdTick)
    /\ WF_vars(VdTimeout)

Outcome == vd_pc \in {"success", "failed"}

\* C39 as stated: a download sub-task that received all bytes of the file eventually
\* emits FileDownloadSuccess or FileDownloadFailed, also when the sender never answers
\* the ReqChsum while its pings keep the connection alive
C39_ValidateEnds == (vd_pc = "validate") ~> Outcome

\* C39, what the code does: the wait ends once the cell is full, with one of the two
\* events unless the loop ended first and aborted the sub-task
C39_ValidateEndsOnceFull ==
    (vd_pc = "validate" /\ vd_cell.some) ~> (Outcome \/ vd_pc = "aborted")

\* the sub-task waits in validate for a cell that the sender was asked for and did
\* not fill, and a ping has just reset the idle timer
C39_Witness ==
    /\ vd_pc = "validate"
    /\ ~vd_cell.some
    /\ vd_req = "sent"
    /\ vd_loop = "alive"
    /\ vd_idle = 0
====
